---- MODULE Spec2Model ----
(***************************************************************************)
(* A model of the nibbler package: cursors over byte buffers, byte         *)
(* streams and UTF-8 text, with lookahead, retraction and run matching.    *)
(*                                                                         *)
(* Every operation of the package is an operator from the receiver's       *)
(* state to a record holding the receiver's new state ("nib"), the value   *)
(* returned ("val"), the error returned ("err") and the number of calls    *)
(* made to the external byte source ("calls").  The actions apply these    *)
(* operators to the nibblers under test and remember, in "last", the       *)
(* operation, its argument, the state it started from and what it          *)
(* returned.                                                               *)
(***************************************************************************)
EXTENDS Integers, Sequences, FiniteSets, TLC

VARIABLES
    family,             \* which nibblers are exercised: "byte", "utf8", "named",
                        \* "utf8reader", "bookend", "scan" or "setsMap"
    byteSliceNibbler,   \* a ByteSliceNibbler
    byteReaderNibbler,  \* a ByteReaderNibbler over a scripted io.Reader
    utf8StringNibbler,      \* a UTF8StringNibbler
    utf8RuneSliceNibbler,   \* a UTF8RuneSliceNibbler
    utf8ByteSliceNibbler,   \* a UTF8ByteSliceNibbler
    utf8NamedSetNibbler,    \* a UTF8StringNibbler of the revision with named sets
    utf8ReaderNibbler,      \* a UTF8ReaderNibbler
    bookendTracker,         \* a UTF8StringNibbler with a bookend mark
    scan,                   \* one run read, taken one iteration of its loop at a time
    namedCharacterSetsMap,  \* a NamedCharacterSetsMap that sets are added to
    last                \* the last operation and its results

byteVars == <<byteSliceNibbler, byteReaderNibbler>>
utf8Vars == <<utf8StringNibbler, utf8RuneSliceNibbler, utf8ByteSliceNibbler>>
namedVars == <<utf8NamedSetNibbler>>
readerVars == <<utf8ReaderNibbler>>
bookendVars == <<bookendTracker>>
scanVars == <<scan>>
setsMapVars == <<namedCharacterSetsMap>>
vars == <<family, byteVars, utf8Vars, namedVars, readerVars, bookendVars, scanVars, setsMapVars, last>>

---------------------------------------------------------------------------
(* Bounds and inputs *)

\* The byte values the buffers and streams are made of.
ByteVals == {1, 2}

\* The largest number of bytes a buffer or a stream holds.
MaxLen == 2

\* The largest number of calls the external source answers with no bytes,
\* no end-of-data and no error (an empty read).
MaxEmptyReads == 1

\* The bytes the UTF-8 texts are made of: ' ', 'a', and the two bytes 0xC2
\* 0xA9 of the copyright sign U+00A9.  Alone or in another order the last two
\* are invalid UTF-8.
TextBytes == {32, 97, 194, 169}

\* The largest number of bytes of a UTF-8 text.
MaxText == 3

\* The largest number of characters a caller's receiver holds.
MaxReceiver == 2

\* Error kinds.  io.EOF is the only error value the code compares by
\* identity; the others are distinguished by the place that makes them.
NoError == "nil"
EOF == "EOF"
AtStreamStart == "AtStreamStart"
UndefinedSet == "UndefinedSet"
ProtocolViolation == "ProtocolViolation"
InvalidEncoding == "InvalidEncoding"
AlreadyActive == "AlreadyActive"
NoActiveMark == "NoActiveMark"

\* The nil *NamedCharacterSetsMap and the non-nil ones.
NilSetsMap == [isNil |-> TRUE, mapOfSetsByName |-> <<>>]
SetsMap(m) == [isNil |-> FALSE, mapOfSetsByName |-> m]

\* The named-set maps a caller attaches, and the names it asks for.
SetsMaps ==
    { SetsMap(("set-1" :> {1}) @@ ("set-empty" :> {})) }
SetNames == {"set-1", "set-empty", "foo"}

\* What one call of the external source's Read gives: some bytes, or nothing
\* at all (an empty read).  A script that has run out gives end-of-data from
\* then on.
DataRead(c) == [kind |-> "data", bytes |-> c]
EmptyRead == [kind |-> "empty", bytes |-> <<>>]

Chunks(n) == UNION { [1..k -> ByteVals] : k \in 1..n }

RECURSIVE Scripts(_, _)
Scripts(n, b) ==
    {<<>>}
    \cup UNION { { <<DataRead(c)>> \o r : r \in Scripts(n - Len(c), b) } : c \in Chunks(n) }
    \cup (IF b > 0
          THEN { <<EmptyRead>> \o r : r \in Scripts(n, b - 1) }
          ELSE {})

\* The bytes a script delivers, in order.
RECURSIVE ScriptBytes(_)
ScriptBytes(script) ==
    IF script = <<>> THEN <<>>
    ELSE Head(script).bytes \o ScriptBytes(Tail(script))

WellBehaved(script) == \A i \in 1..Len(script) : script[i].kind = "data"

\* What a method gives back: the receiver after the call, the value and the
\* error returned, and the number of calls made to the external source.
Result(nib, val, err, calls) == [nib |-> nib, val |-> val, err |-> err, calls |-> calls]

---------------------------------------------------------------------------
(* NamedCharacterSetsMap *)

\* retrieveNamedCharacterSet: the set, or nil when the name is not a key.
NilSet == [isNil |-> TRUE, members |-> {}]
\* A lookup that gives an empty set for a name that is not a key.
retrieveNamedCharacterSet_EmptyWhenAbsent(setsMap, nameOfSet) ==
    IF nameOfSet \in DOMAIN setsMap.mapOfSetsByName
    THEN [isNil |-> FALSE, members |-> setsMap.mapOfSetsByName[nameOfSet]]
    ELSE [isNil |-> FALSE, members |-> {}]

retrieveNamedCharacterSet(setsMap, nameOfSet) ==
    IF nameOfSet \in DOMAIN setsMap.mapOfSetsByName
    THEN [isNil |-> FALSE, members |-> setsMap.mapOfSetsByName[nameOfSet]]
    ELSE NilSet

---------------------------------------------------------------------------
(* ByteSliceNibbler *)

NewByteSliceNibbler(buffer) ==
    [kind |-> "slice",
     backingBuffer |-> buffer,
     indexInBufferOfNextReadByte |-> 0,
     namedCharacterSets |-> NilSetsMap]

\* A read that finds the end of the buffer one byte early.
ByteSliceNibbler_ReadByte_EOFAtLastByte(nib) ==
    IF Len(nib.backingBuffer) <= nib.indexInBufferOfNextReadByte + 1
    THEN Result(nib, 0, EOF, 0)
    ELSE Result([nib EXCEPT !.indexInBufferOfNextReadByte = @ + 1],
                nib.backingBuffer[nib.indexInBufferOfNextReadByte + 1], NoError, 0)

ByteSliceNibbler_ReadByte(nib) ==
    IF Len(nib.backingBuffer) <= nib.indexInBufferOfNextReadByte
    THEN Result(nib, 0, EOF, 0)
    ELSE Result([nib EXCEPT !.indexInBufferOfNextReadByte = @ + 1],
                nib.backingBuffer[nib.indexInBufferOfNextReadByte + 1], NoError, 0)

ByteSliceNibbler_UnreadByte(nib) ==
    IF nib.indexInBufferOfNextReadByte = 0
    THEN Result(nib, 0, AtStreamStart, 0)
    ELSE Result([nib EXCEPT !.indexInBufferOfNextReadByte = @ - 1], 0, NoError, 0)

\* A peek that looks at the byte before the cursor.
ByteSliceNibbler_PeekAtNextByte_LastRead(nib) ==
    IF Len(nib.backingBuffer) <= nib.indexInBufferOfNextReadByte
    THEN Result(nib, 0, EOF, 0)
    ELSE Result(nib, nib.backingBuffer[IF nib.indexInBufferOfNextReadByte = 0 THEN 1
                                       ELSE nib.indexInBufferOfNextReadByte],
                NoError, 0)

ByteSliceNibbler_PeekAtNextByte(nib) ==
    IF Len(nib.backingBuffer) <= nib.indexInBufferOfNextReadByte
    THEN Result(nib, 0, EOF, 0)
    ELSE Result(nib, nib.backingBuffer[nib.indexInBufferOfNextReadByte + 1], NoError, 0)

---------------------------------------------------------------------------
(* ByteReaderNibbler *)

\* The backing reader is the script and the number of its answers used up.
NewByteReaderNibbler(script) ==
    [kind |-> "reader",
     backingReader |-> [script |-> script, used |-> 0],
     internalBuffer |-> <<>>,
     indexOfNextReadByteInBuffer |-> 0,
     namedCharacterSets |-> NilSetsMap]

\* backingReader.Read(readBuffer): the next answer of the script.
backingReader_Read(r) ==
    IF r.used >= Len(r.script)
    THEN [reader |-> r, bytes |-> <<>>, err |-> EOF]
    ELSE [reader |-> [r EXCEPT !.used = @ + 1],
          bytes |-> r.script[r.used + 1].bytes, err |-> NoError]

\* A refill that keeps only the first byte of what the source gave.
readFromStreamAndAppendToInternalBuffer_FirstByteOnly(nib) ==
    LET rd == backingReader_Read(nib.backingReader)
        nib2 == [nib EXCEPT !.backingReader = rd.reader]
    IN  IF rd.err # NoError THEN Result(nib2, 0, rd.err, 1)
        ELSE IF Len(rd.bytes) > 0
             THEN Result([nib2 EXCEPT !.internalBuffer = Append(@, rd.bytes[1])], 0, NoError, 1)
             ELSE Result(nib2, 0, ProtocolViolation, 1)

\* A refill that takes an empty read for the end of the stream.
readFromStreamAndAppendToInternalBuffer_EmptyIsEOF(nib) ==
    LET rd == backingReader_Read(nib.backingReader)
        nib2 == [nib EXCEPT !.backingReader = rd.reader]
    IN  IF rd.err # NoError THEN Result(nib2, 0, rd.err, 1)
        ELSE IF Len(rd.bytes) > 0
             THEN Result([nib2 EXCEPT !.internalBuffer = @ \o rd.bytes], 0, NoError, 1)
             ELSE Result(nib2, 0, EOF, 1)

readFromStreamAndAppendToInternalBuffer(nib) ==
    LET rd == backingReader_Read(nib.backingReader)
        nib2 == [nib EXCEPT !.backingReader = rd.reader]
    IN  IF rd.err # NoError THEN Result(nib2, 0, rd.err, 1)
        ELSE IF Len(rd.bytes) > 0
             THEN Result([nib2 EXCEPT !.internalBuffer = @ \o rd.bytes], 0, NoError, 1)
             ELSE Result(nib2, 0, ProtocolViolation, 1)

\* A refill that starts while one byte of the buffer is still unread.
RefillIfExhausted_Speculative(nib) ==
    IF nib.indexOfNextReadByteInBuffer + 1 >= Len(nib.internalBuffer)
    THEN readFromStreamAndAppendToInternalBuffer(nib)
    ELSE Result(nib, 0, NoError, 0)

\* The refill ReadByte and PeekAtNextByte start with.
RefillIfExhausted(nib) ==
    IF nib.indexOfNextReadByteInBuffer >= Len(nib.internalBuffer)
    THEN readFromStreamAndAppendToInternalBuffer(nib)
    ELSE Result(nib, 0, NoError, 0)

\* A read that moves on although the stream has ended.
ByteReaderNibbler_ReadByte_AdvancesAtEOF(nib) ==
    LET f == RefillIfExhausted(nib)
    IN  IF f.err = EOF
        THEN Result([f.nib EXCEPT !.indexOfNextReadByteInBuffer = @ + 1], 0, f.err, f.calls)
        ELSE IF f.err # NoError THEN Result(f.nib, 0, f.err, f.calls)
        ELSE Result([f.nib EXCEPT !.indexOfNextReadByteInBuffer = @ + 1],
                    f.nib.internalBuffer[f.nib.indexOfNextReadByteInBuffer + 1],
                    NoError, f.calls)

ByteReaderNibbler_ReadByte(nib) ==
    LET f == RefillIfExhausted(nib)
    IN  IF f.err # NoError THEN Result(f.nib, 0, f.err, f.calls)
        ELSE Result([f.nib EXCEPT !.indexOfNextReadByteInBuffer = @ + 1],
                    f.nib.internalBuffer[f.nib.indexOfNextReadByteInBuffer + 1],
                    NoError, f.calls)

\* An unread that refuses to go back to the first byte.
ByteReaderNibbler_UnreadByte_OffByOne(nib) ==
    IF nib.indexOfNextReadByteInBuffer < 2
    THEN Result(nib, 0, AtStreamStart, 0)
    ELSE Result([nib EXCEPT !.indexOfNextReadByteInBuffer = @ - 1], 0, NoError, 0)

ByteReaderNibbler_UnreadByte(nib) ==
    IF nib.indexOfNextReadByteInBuffer < 1
    THEN Result(nib, 0, AtStreamStart, 0)
    ELSE Result([nib EXCEPT !.indexOfNextReadByteInBuffer = @ - 1], 0, NoError, 0)

\* A peek that consumes the byte it returns.
ByteReaderNibbler_PeekAtNextByte_Consuming(nib) ==
    LET f == RefillIfExhausted(nib)
    IN  IF f.err # NoError THEN Result(f.nib, 0, f.err, f.calls)
        ELSE Result([f.nib EXCEPT !.indexOfNextReadByteInBuffer = @ + 1],
                    f.nib.internalBuffer[f.nib.indexOfNextReadByteInBuffer + 1],
                    NoError, f.calls)

ByteReaderNibbler_PeekAtNextByte(nib) ==
    LET f == RefillIfExhausted(nib)
    IN  IF f.err # NoError THEN Result(f.nib, 0, f.err, f.calls)
        ELSE Result(f.nib, f.nib.internalBuffer[f.nib.indexOfNextReadByteInBuffer + 1],
                    NoError, f.calls)

---------------------------------------------------------------------------
(* byteNibblerDelegate: the set-based reads shared by both byte nibblers *)

\* delegate.actualNibbler is the nibbler the delegate was made for: its
\* calls go to that nibbler's own methods.
actualNibbler_ReadByte(nib) ==
    IF nib.kind = "slice" THEN ByteSliceNibbler_ReadByte(nib)
    ELSE ByteReaderNibbler_ReadByte(nib)

actualNibbler_UnreadByte(nib) ==
    IF nib.kind = "slice" THEN ByteSliceNibbler_UnreadByte(nib)
    ELSE ByteReaderNibbler_UnreadByte(nib)

actualNibbler_PeekAtNextByte(nib) ==
    IF nib.kind = "slice" THEN ByteSliceNibbler_PeekAtNextByte(nib)
    ELSE ByteReaderNibbler_PeekAtNextByte(nib)

addNamedCharacterSetsMap(nib, setMap) ==
    Result([nib EXCEPT !.namedCharacterSets = setMap], 0, NoError, 0)

\* A loop that leaves the byte that ended the run consumed.
RECURSIVE readNextBytesLoop_NoUnread(_, _, _, _, _)
readNextBytesLoop_NoUnread(nib, members, wanted, contiguousBytes, calls) ==
    LET r == actualNibbler_ReadByte(nib)
    IN  IF r.err # NoError
        THEN Result(r.nib, contiguousBytes, r.err, calls + r.calls)
        ELSE IF (r.val \in members) = wanted
             THEN readNextBytesLoop_NoUnread(r.nib, members, wanted,
                                             Append(contiguousBytes, r.val), calls + r.calls)
             ELSE Result(r.nib, contiguousBytes, NoError, calls + r.calls)

\* A loop that returns no bytes when a read fails.
RECURSIVE readNextBytesLoop_NoBytesWithAnError(_, _, _, _, _)
readNextBytesLoop_NoBytesWithAnError(nib, members, wanted, contiguousBytes, calls) ==
    LET r == actualNibbler_ReadByte(nib)
    IN  IF r.err # NoError
        THEN Result(r.nib, <<>>, r.err, calls + r.calls)
        ELSE IF (r.val \in members) = wanted
             THEN readNextBytesLoop_NoBytesWithAnError(r.nib, members, wanted,
                                                       Append(contiguousBytes, r.val),
                                                       calls + r.calls)
             ELSE Result(actualNibbler_UnreadByte(r.nib).nib, contiguousBytes,
                         NoError, calls + r.calls)

\* A loop that drops the end of the stream once it has read a byte.
RECURSIVE readNextBytesLoop_AbsorbsEOF(_, _, _, _, _)
readNextBytesLoop_AbsorbsEOF(nib, members, wanted, contiguousBytes, calls) ==
    LET r == actualNibbler_ReadByte(nib)
    IN  IF r.err # NoError
        THEN Result(r.nib, contiguousBytes,
                    IF r.err = EOF /\ contiguousBytes # <<>> THEN NoError ELSE r.err,
                    calls + r.calls)
        ELSE IF (r.val \in members) = wanted
             THEN readNextBytesLoop_AbsorbsEOF(r.nib, members, wanted,
                                               Append(contiguousBytes, r.val), calls + r.calls)
             ELSE Result(actualNibbler_UnreadByte(r.nib).nib, contiguousBytes,
                         NoError, calls + r.calls)

\* The for loop of readNextBytesMatchingSet (wanted = TRUE) and of
\* readNextBytesNotMatchingSet (wanted = FALSE): bytes are read while their
\* membership of the set is the wanted one; the first other byte is unread.
RECURSIVE readNextBytesLoop(_, _, _, _, _)
readNextBytesLoop(nib, members, wanted, contiguousBytes, calls) ==
    LET r == actualNibbler_ReadByte(nib)
    IN  IF r.err # NoError
        THEN Result(r.nib, contiguousBytes, r.err, calls + r.calls)
        ELSE IF (r.val \in members) = wanted
             THEN readNextBytesLoop(r.nib, members, wanted,
                                    Append(contiguousBytes, r.val), calls + r.calls)
             ELSE Result(actualNibbler_UnreadByte(r.nib).nib, contiguousBytes,
                         NoError, calls + r.calls)

readNextBytesMatchingSet(nib, setName) ==
    IF nib.namedCharacterSets.isNil
    THEN Result(nib, <<>>, UndefinedSet, 0)
    ELSE LET setMap == retrieveNamedCharacterSet(nib.namedCharacterSets, setName)
         IN  IF setMap.isNil
             THEN Result(nib, <<>>, UndefinedSet, 0)
             ELSE readNextBytesLoop(nib, setMap.members, TRUE, <<>>, 0)

readNextBytesNotMatchingSet(nib, setName) ==
    IF nib.namedCharacterSets.isNil
    THEN Result(nib, <<>>, UndefinedSet, 0)
    ELSE LET setMap == retrieveNamedCharacterSet(nib.namedCharacterSets, setName)
         IN  IF setMap.isNil
             THEN Result(nib, <<>>, UndefinedSet, 0)
             ELSE readNextBytesLoop(nib, setMap.members, FALSE, <<>>, 0)

---------------------------------------------------------------------------
(* The byte package under test: both byte nibblers are given the same     *)
(* calls, the slice nibbler over the bytes the reader's source delivers.  *)

\* What an operation returned, without the receiver.
Returned(r) == [val |-> r.val, err |-> r.err, calls |-> r.calls]

NoOperation == [op |-> "none", arg |-> ""]

InitByte ==
    /\ family = "byte"
    /\ \E script \in Scripts(MaxLen, MaxEmptyReads) :
          /\ byteSliceNibbler = NewByteSliceNibbler(ScriptBytes(script))
          /\ byteReaderNibbler = NewByteReaderNibbler(script)
    /\ utf8StringNibbler = <<>>
    /\ utf8RuneSliceNibbler = <<>>
    /\ utf8ByteSliceNibbler = <<>>
    /\ utf8NamedSetNibbler = <<>>
    /\ utf8ReaderNibbler = <<>>
    /\ bookendTracker = <<>>
    /\ scan = <<>>
    /\ namedCharacterSetsMap = <<>>
    /\ last = NoOperation

\* One call, made on both nibblers.
ByteStep(op, arg, s, r) ==
    /\ family = "byte"
    /\ byteSliceNibbler' = s.nib
    /\ byteReaderNibbler' = r.nib
    /\ last' = [op |-> op, arg |-> arg,
                pre |-> [slice |-> byteSliceNibbler, reader |-> byteReaderNibbler],
                slice |-> Returned(s), reader |-> Returned(r)]
    /\ UNCHANGED <<family, utf8Vars, namedVars, readerVars, bookendVars, scanVars, setsMapVars>>

ReadByte ==
    ByteStep("ReadByte", "",
             ByteSliceNibbler_ReadByte(byteSliceNibbler),
             ByteReaderNibbler_ReadByte(byteReaderNibbler))

UnreadByte ==
    ByteStep("UnreadByte", "",
             ByteSliceNibbler_UnreadByte(byteSliceNibbler),
             ByteReaderNibbler_UnreadByte(byteReaderNibbler))

PeekAtNextByte ==
    ByteStep("PeekAtNextByte", "",
             ByteSliceNibbler_PeekAtNextByte(byteSliceNibbler),
             ByteReaderNibbler_PeekAtNextByte(byteReaderNibbler))

AddNamedCharacterSetsMap ==
    \E setsMap \in SetsMaps :
        ByteStep("AddNamedCharacterSetsMap", "",
                 addNamedCharacterSetsMap(byteSliceNibbler, setsMap),
                 addNamedCharacterSetsMap(byteReaderNibbler, setsMap))

ReadNextBytesMatchingSet ==
    \E setName \in SetNames :
        ByteStep("ReadNextBytesMatchingSet", setName,
                 readNextBytesMatchingSet(byteSliceNibbler, setName),
                 readNextBytesMatchingSet(byteReaderNibbler, setName))

ReadNextBytesNotMatchingSet ==
    \E setName \in SetNames :
        ByteStep("ReadNextBytesNotMatchingSet", setName,
                 readNextBytesNotMatchingSet(byteSliceNibbler, setName),
                 readNextBytesNotMatchingSet(byteReaderNibbler, setName))

NextByte ==
    \/ ReadByte
    \/ UnreadByte
    \/ PeekAtNextByte
    \/ AddNamedCharacterSetsMap
    \/ ReadNextBytesMatchingSet
    \/ ReadNextBytesNotMatchingSet

SpecByte == InitByte /\ [][NextByte]_vars


----------------------------------------------------------------------------
(* ReadFixedNumberOfBytes. The tests call it on both byte nibblers; the    *)
(* method itself is not among the sources, so it is modelled from its      *)
(* specification, "reads exactly n units if available; if fewer than n     *)
(* remain, returns as many as are available and reports EndOfStream; n = 0 *)
(* returns an empty result with no error, even at end of stream", as a     *)
(* loop over ReadByte that stops at the first error.                       *)

FixedCounts == 0..(MaxLen + 1)

\* A loop that reads a byte before it looks whether one is still asked for.
RECURSIVE ReadFixedNumberOfBytesLoop_ReadsBeforeCounting(_, _, _, _)
ReadFixedNumberOfBytesLoop_ReadsBeforeCounting(nib, numberOfBytesInRead, retrievedBytes, calls) ==
    LET r == actualNibbler_ReadByte(nib)
    IN  IF r.err # NoError
        THEN Result(r.nib, retrievedBytes, r.err, calls + r.calls)
        ELSE IF Len(retrievedBytes) >= numberOfBytesInRead
             THEN Result(actualNibbler_UnreadByte(r.nib).nib, retrievedBytes, NoError,
                         calls + r.calls)
             ELSE ReadFixedNumberOfBytesLoop_ReadsBeforeCounting(
                      r.nib, numberOfBytesInRead, Append(retrievedBytes, r.val),
                      calls + r.calls)

RECURSIVE ReadFixedNumberOfBytesLoop(_, _, _, _)
ReadFixedNumberOfBytesLoop(nib, numberOfBytesInRead, retrievedBytes, calls) ==
    IF Len(retrievedBytes) >= numberOfBytesInRead
    THEN Result(nib, retrievedBytes, NoError, calls)
    ELSE LET r == actualNibbler_ReadByte(nib)
         IN  IF r.err # NoError
             THEN Result(r.nib, retrievedBytes, r.err, calls + r.calls)
             ELSE ReadFixedNumberOfBytesLoop(r.nib, numberOfBytesInRead,
                                             Append(retrievedBytes, r.val),
                                             calls + r.calls)

ReadFixedNumberOfBytes(nib, numberOfBytesInRead) ==
    ReadFixedNumberOfBytesLoop(nib, numberOfBytesInRead, <<>>, 0)

DoReadFixedNumberOfBytes ==
    \E numberOfBytesInRead \in FixedCounts :
        ByteStep("ReadFixedNumberOfBytes", numberOfBytesInRead,
                 ReadFixedNumberOfBytes(byteSliceNibbler, numberOfBytesInRead),
                 ReadFixedNumberOfBytes(byteReaderNibbler, numberOfBytesInRead))

NextFixedCount ==
    \/ ReadByte
    \/ UnreadByte
    \/ PeekAtNextByte
    \/ DoReadFixedNumberOfBytes

SpecFixedCount == InitByte /\ [][NextFixedCount]_vars

---------------------------------------------------------------------------
(* unicode/utf8 and unicode, as the UTF-8 nibblers call them *)

\* utf8.RuneError, U+FFFD.
RuneError == 65533

\* s[i:] of a string or slice, i counted from 0.
From(s, i) == SubSeq(s, i + 1, Len(s))

\* s[:i].
UpTo(s, i) == SubSeq(s, 1, i)

\* The width the first byte of a sequence announces: 1 for ASCII, 0 for a
\* byte that starts no sequence (0x80..0xC1, 0xF5..0xFF).
WidthOfFirstByte(b) ==
    IF b < 128 THEN 1
    ELSE IF b >= 194 /\ b <= 223 THEN 2
    ELSE IF b >= 224 /\ b <= 239 THEN 3
    ELSE IF b >= 240 /\ b <= 244 THEN 4
    ELSE 0

\* The range the second byte must lie in, which depends on the first.
AcceptLo(b) == IF b = 224 THEN 160 ELSE IF b = 240 THEN 144 ELSE 128
AcceptHi(b) == IF b = 237 THEN 159 ELSE IF b = 244 THEN 143 ELSE 191

IsContinuationByte(b) == b >= 128 /\ b <= 191

\* utf8.DecodeRuneInString (and utf8.DecodeRune): the first rune of s and
\* its width, (RuneError, 0) for the empty string, (RuneError, 1) for bytes
\* that are no valid encoding.
DecodeRuneInString(s) ==
    IF Len(s) < 1 THEN [r |-> RuneError, size |-> 0]
    ELSE LET sz == WidthOfFirstByte(s[1])
             invalid == [r |-> RuneError, size |-> 1]
         IN  IF sz = 1 THEN [r |-> s[1], size |-> 1]
             ELSE IF sz = 0 THEN invalid
             ELSE IF Len(s) < sz THEN invalid
             ELSE IF s[2] < AcceptLo(s[1]) \/ AcceptHi(s[1]) < s[2] THEN invalid
             ELSE IF sz = 2
                  THEN [r |-> (s[1] % 32) * 64 + (s[2] % 64), size |-> 2]
             ELSE IF ~IsContinuationByte(s[3]) THEN invalid
             ELSE IF sz = 3
                  THEN [r |-> (s[1] % 16) * 4096 + (s[2] % 64) * 64 + (s[3] % 64),
                        size |-> 3]
             ELSE IF ~IsContinuationByte(s[4]) THEN invalid
             ELSE [r |-> (s[1] % 8) * 262144 + (s[2] % 64) * 4096
                         + (s[3] % 64) * 64 + (s[4] % 64),
                   size |-> 4]

\* The index utf8.DecodeLastRuneInString starts decoding at: it walks back
\* from the last byte, over at most three more bytes, to a byte that is not
\* a continuation byte.
RECURSIVE LastRuneStart(_, _, _)
LastRuneStart(s, start, lim) ==
    IF start < lim THEN start
    ELSE IF ~IsContinuationByte(s[start + 1]) THEN start
    ELSE LastRuneStart(s, start - 1, lim)

\* utf8.DecodeLastRuneInString: the last rune of s and its width.
DecodeLastRuneInString(s) ==
    LET end == Len(s)
    IN  IF end = 0 THEN [r |-> RuneError, size |-> 0]
        ELSE IF s[end] < 128 THEN [r |-> s[end], size |-> 1]
        ELSE LET lim == IF end - 4 < 0 THEN 0 ELSE end - 4
                 walked == LastRuneStart(s, end - 2, lim)
                 start == IF walked < 0 THEN 0 ELSE walked
                 d == DecodeRuneInString(SubSeq(s, start + 1, end))
             IN  IF start + d.size # end THEN [r |-> RuneError, size |-> 1]
                 ELSE d

\* unicode.IsSpace.
IsSpace(r) ==
    IF r <= 255
    THEN r \in {9, 10, 11, 12, 13, 32, 133, 160}
    ELSE \/ r = 5760
         \/ r >= 8192 /\ r <= 8202
         \/ r \in {8232, 8233, 8239, 8287, 12288}

runeIsWhitespace(r) == IsSpace(r)

\* The runes of a string, as a range loop or stringToRuneSlice gives them:
\* every byte that starts no valid encoding becomes one RuneError.
RECURSIVE stringToRuneSlice(_)
stringToRuneSlice(s) ==
    IF Len(s) = 0 THEN <<>>
    ELSE LET d == DecodeRuneInString(s)
         IN  <<d.r>> \o stringToRuneSlice(From(s, d.size))

---------------------------------------------------------------------------
(* UTF8StringNibbler *)

NewUTF8StringNibbler(nibbleString) ==
    [kind |-> "string",
     backingString |-> nibbleString,
     indexInStringOfNextReadByte |-> 0]

\* A read that steps over a byte that starts no valid encoding.
UTF8StringNibbler_ReadCharacter_SkipsInvalid(nib) ==
    IF nib.indexInStringOfNextReadByte >= Len(nib.backingString)
    THEN Result(nib, RuneError, EOF, 0)
    ELSE LET d == DecodeRuneInString(From(nib.backingString, nib.indexInStringOfNextReadByte))
         IN  IF d.r = RuneError
             THEN Result([nib EXCEPT !.indexInStringOfNextReadByte = @ + 1],
                         RuneError, InvalidEncoding, 0)
             ELSE Result([nib EXCEPT !.indexInStringOfNextReadByte = @ + d.size],
                         d.r, NoError, 0)

\* A read that advances by one byte, whatever the width of the character.
UTF8StringNibbler_ReadCharacter_OneByte(nib) ==
    IF nib.indexInStringOfNextReadByte >= Len(nib.backingString)
    THEN Result(nib, RuneError, EOF, 0)
    ELSE LET d == DecodeRuneInString(From(nib.backingString, nib.indexInStringOfNextReadByte))
         IN  IF d.r = RuneError
             THEN Result(nib, RuneError, InvalidEncoding, 0)
             ELSE Result([nib EXCEPT !.indexInStringOfNextReadByte = @ + 1],
                         d.r, NoError, 0)

UTF8StringNibbler_ReadCharacter(nib) ==
    IF nib.indexInStringOfNextReadByte >= Len(nib.backingString)
    THEN Result(nib, RuneError, EOF, 0)
    ELSE LET d == DecodeRuneInString(From(nib.backingString, nib.indexInStringOfNextReadByte))
         IN  IF d.r = RuneError
             THEN Result(nib, RuneError, InvalidEncoding, 0)
             ELSE Result([nib EXCEPT !.indexInStringOfNextReadByte = @ + d.size],
                         d.r, NoError, 0)

\* An unread that reports an invalid encoding at the start of the string.
UTF8StringNibbler_UnreadCharacter_InvalidAtStart(nib) ==
    LET d == DecodeLastRuneInString(UpTo(nib.backingString, nib.indexInStringOfNextReadByte))
    IN  IF d.r = RuneError
        THEN Result(nib, 0, InvalidEncoding, 0)
        ELSE Result([nib EXCEPT !.indexInStringOfNextReadByte = @ - d.size],
                    0, NoError, 0)

\* An unread that goes back by one byte, whatever the width of the character.
UTF8StringNibbler_UnreadCharacter_OneByte(nib) ==
    IF nib.indexInStringOfNextReadByte = 0
    THEN Result(nib, 0, AtStreamStart, 0)
    ELSE Result([nib EXCEPT !.indexInStringOfNextReadByte = @ - 1], 0, NoError, 0)

UTF8StringNibbler_UnreadCharacter(nib) ==
    LET d == DecodeLastRuneInString(UpTo(nib.backingString, nib.indexInStringOfNextReadByte))
    IN  IF d.r = RuneError
        THEN IF d.size = 0 THEN Result(nib, 0, AtStreamStart, 0)
             ELSE Result(nib, 0, InvalidEncoding, 0)
        ELSE Result([nib EXCEPT !.indexInStringOfNextReadByte = @ - d.size],
                    0, NoError, 0)

\* A peek that takes the character it returns.
UTF8StringNibbler_PeekAtNextCharacter_Consuming(nib) ==
    IF nib.indexInStringOfNextReadByte >= Len(nib.backingString)
    THEN Result(nib, RuneError, EOF, 0)
    ELSE LET d == DecodeRuneInString(From(nib.backingString, nib.indexInStringOfNextReadByte))
         IN  IF d.r = RuneError
             THEN Result(nib, 0, InvalidEncoding, 0)
             ELSE Result([nib EXCEPT !.indexInStringOfNextReadByte = @ + d.size],
                         d.r, NoError, 0)

UTF8StringNibbler_PeekAtNextCharacter(nib) ==
    IF nib.indexInStringOfNextReadByte >= Len(nib.backingString)
    THEN Result(nib, RuneError, EOF, 0)
    ELSE LET d == DecodeRuneInString(From(nib.backingString, nib.indexInStringOfNextReadByte))
         IN  IF d.r = RuneError
             THEN Result(nib, 0, InvalidEncoding, 0)
             ELSE Result(nib, d.r, NoError, 0)

---------------------------------------------------------------------------
(* UTF8RuneSliceNibbler *)

NewUTF8RuneSliceNibbler(runeSlice) ==
    [kind |-> "runes",
     backingSlice |-> runeSlice,
     indexOfLastReadRune |-> -1]

UTF8RuneSliceNibbler_ReadCharacter(nib) ==
    IF nib.indexOfLastReadRune = Len(nib.backingSlice) - 1
    THEN Result(nib, RuneError, EOF, 0)
    ELSE Result([nib EXCEPT !.indexOfLastReadRune = @ + 1],
                nib.backingSlice[nib.indexOfLastReadRune + 2], NoError, 0)

\* An unread that takes the start of the slice for a character.
UTF8RuneSliceNibbler_UnreadCharacter_BelowStart(nib) ==
    IF nib.indexOfLastReadRune < -1
    THEN Result(nib, 0, AtStreamStart, 0)
    ELSE Result([nib EXCEPT !.indexOfLastReadRune = @ - 1], 0, NoError, 0)

UTF8RuneSliceNibbler_UnreadCharacter(nib) ==
    IF nib.indexOfLastReadRune < 0
    THEN Result(nib, 0, AtStreamStart, 0)
    ELSE Result([nib EXCEPT !.indexOfLastReadRune = @ - 1], 0, NoError, 0)

UTF8RuneSliceNibbler_PeekAtNextCharacter(nib) ==
    IF nib.indexOfLastReadRune = Len(nib.backingSlice) - 1
    THEN Result(nib, RuneError, EOF, 0)
    ELSE Result(nib, nib.backingSlice[nib.indexOfLastReadRune + 2], NoError, 0)

---------------------------------------------------------------------------
(* UTF8ByteSliceNibbler: a UTF8StringNibbler over string(byteSlice) *)

NewUTF8ByteSliceNibbler(byteSlice) ==
    [kind |-> "bytes",
     underlyingStringNibbler |-> NewUTF8StringNibbler(byteSlice)]

\* A method of the underlying string nibbler, called through the wrapper.
ThroughUnderlying(nib, r) ==
    Result([nib EXCEPT !.underlyingStringNibbler = r.nib], r.val, r.err, r.calls)

UTF8ByteSliceNibbler_ReadCharacter(nib) ==
    ThroughUnderlying(nib, UTF8StringNibbler_ReadCharacter(nib.underlyingStringNibbler))

UTF8ByteSliceNibbler_UnreadCharacter(nib) ==
    ThroughUnderlying(nib, UTF8StringNibbler_UnreadCharacter(nib.underlyingStringNibbler))

UTF8ByteSliceNibbler_PeekAtNextCharacter(nib) ==
    ThroughUnderlying(nib, UTF8StringNibbler_PeekAtNextCharacter(nib.underlyingStringNibbler))

---------------------------------------------------------------------------
(* UTF8Nibbler, the interface, and UTF8NibblerMatcher *)

ReadCharacter(nib) ==
    IF nib.kind = "string" THEN UTF8StringNibbler_ReadCharacter(nib)
    ELSE IF nib.kind = "runes" THEN UTF8RuneSliceNibbler_ReadCharacter(nib)
    ELSE UTF8ByteSliceNibbler_ReadCharacter(nib)

UnreadCharacter(nib) ==
    IF nib.kind = "string" THEN UTF8StringNibbler_UnreadCharacter(nib)
    ELSE IF nib.kind = "runes" THEN UTF8RuneSliceNibbler_UnreadCharacter(nib)
    ELSE UTF8ByteSliceNibbler_UnreadCharacter(nib)

PeekAtNextCharacter(nib) ==
    IF nib.kind = "string" THEN UTF8StringNibbler_PeekAtNextCharacter(nib)
    ELSE IF nib.kind = "runes" THEN UTF8RuneSliceNibbler_PeekAtNextCharacter(nib)
    ELSE UTF8ByteSliceNibbler_PeekAtNextCharacter(nib)

\* The CharacterMatchingFunctions callers pass, by name.
MatchingFunctions == {"asciiAlphaMatcher", "asciiCharacterMatcher", "runeIsWhitespace"}

CharacterMatchingFunction(matchFunction, r) ==
    IF matchFunction = "asciiAlphaMatcher"
    THEN (r >= 97 /\ r <= 122) \/ (r >= 65 /\ r <= 90)
    ELSE IF matchFunction = "asciiCharacterMatcher"
    THEN r > 0 /\ r < 128
    ELSE runeIsWhitespace(r)

\* A loop that reports no error at the end of the stream, run or no run.
RECURSIVE ReadConsecutiveCharactersMatchingLoop_AbsorbsEveryEOF(_, _, _)
ReadConsecutiveCharactersMatchingLoop_AbsorbsEveryEOF(nib, matchFunction, matchingRunes) ==
    LET r == ReadCharacter(nib)
    IN  IF r.err # NoError
        THEN IF r.err = EOF
             THEN Result(r.nib, matchingRunes, NoError, 0)
             ELSE Result(r.nib, matchingRunes, r.err, 0)
        ELSE IF CharacterMatchingFunction(matchFunction, r.val)
             THEN ReadConsecutiveCharactersMatchingLoop_AbsorbsEveryEOF(
                      r.nib, matchFunction, Append(matchingRunes, r.val))
             ELSE Result(UnreadCharacter(r.nib).nib, matchingRunes, NoError, 0)

RECURSIVE ReadConsecutiveCharactersMatchingLoop(_, _, _)
ReadConsecutiveCharactersMatchingLoop(nib, matchFunction, matchingRunes) ==
    LET r == ReadCharacter(nib)
    IN  IF r.err # NoError
        THEN IF r.err = EOF
             THEN IF Len(matchingRunes) = 0
                  THEN Result(r.nib, <<>>, EOF, 0)
                  ELSE Result(r.nib, matchingRunes, NoError, 0)
             ELSE Result(r.nib, matchingRunes, r.err, 0)
        ELSE IF CharacterMatchingFunction(matchFunction, r.val)
             THEN ReadConsecutiveCharactersMatchingLoop(r.nib, matchFunction,
                                                        Append(matchingRunes, r.val))
             ELSE Result(UnreadCharacter(r.nib).nib, matchingRunes, NoError, 0)

ReadConsecutiveCharactersMatching(nib, matchFunction) ==
    ReadConsecutiveCharactersMatchingLoop(nib, matchFunction, <<>>)

\* A loop that hands the end of the stream on with the run it has read.
RECURSIVE ReadConsecutiveCharactersNotMatchingLoop_RunWithEOF(_, _, _)
ReadConsecutiveCharactersNotMatchingLoop_RunWithEOF(nib, matchFunction, nonMatchingRunes) ==
    LET r == ReadCharacter(nib)
    IN  IF r.err # NoError
        THEN IF r.err = EOF
             THEN Result(r.nib, nonMatchingRunes, EOF, 0)
             ELSE Result(r.nib, nonMatchingRunes, NoError, 0)
        ELSE IF ~CharacterMatchingFunction(matchFunction, r.val)
             THEN ReadConsecutiveCharactersNotMatchingLoop_RunWithEOF(
                      r.nib, matchFunction, Append(nonMatchingRunes, r.val))
             ELSE Result(UnreadCharacter(r.nib).nib, nonMatchingRunes, NoError, 0)

RECURSIVE ReadConsecutiveCharactersNotMatchingLoop(_, _, _)
ReadConsecutiveCharactersNotMatchingLoop(nib, matchFunction, nonMatchingRunes) ==
    LET r == ReadCharacter(nib)
    IN  IF r.err # NoError
        THEN IF r.err = EOF /\ Len(nonMatchingRunes) = 0
             THEN Result(r.nib, <<>>, EOF, 0)
             ELSE Result(r.nib, nonMatchingRunes, NoError, 0)
        ELSE IF ~CharacterMatchingFunction(matchFunction, r.val)
             THEN ReadConsecutiveCharactersNotMatchingLoop(r.nib, matchFunction,
                                                           Append(nonMatchingRunes, r.val))
             ELSE Result(UnreadCharacter(r.nib).nib, nonMatchingRunes, NoError, 0)

ReadConsecutiveCharactersNotMatching(nib, matchFunction) ==
    ReadConsecutiveCharactersNotMatchingLoop(nib, matchFunction, <<>>)

ReadConsecutiveWhitespace(nib) ==
    ReadConsecutiveCharactersMatching(nib, "runeIsWhitespace")

ReadConsecutiveWordCharacters(nib) ==
    ReadConsecutiveCharactersNotMatching(nib, "runeIsWhitespace")

\* A loop that leaves the character that ended the run consumed.
RECURSIVE ReadConsecutiveCharactersIntoLoop_KeepsTheOtherCharacter(_, _, _, _, _)
ReadConsecutiveCharactersIntoLoop_KeepsTheOtherCharacter(nib, matchFunction, wanted, receiver, i) ==
    IF i >= Len(receiver)
    THEN Result(nib, [count |-> Len(receiver), receiver |-> receiver], NoError, 0)
    ELSE LET r == ReadCharacter(nib)
         IN  IF r.err # NoError
             THEN IF r.err = EOF
                  THEN IF i = 0
                       THEN Result(r.nib, [count |-> 0, receiver |-> receiver], EOF, 0)
                       ELSE Result(r.nib, [count |-> i, receiver |-> receiver], NoError, 0)
                  ELSE Result(r.nib, [count |-> -1, receiver |-> receiver], r.err, 0)
             ELSE IF CharacterMatchingFunction(matchFunction, r.val) = wanted
                  THEN ReadConsecutiveCharactersIntoLoop_KeepsTheOtherCharacter(
                           r.nib, matchFunction, wanted,
                           [receiver EXCEPT ![i + 1] = r.val], i + 1)
                  ELSE Result(r.nib, [count |-> i, receiver |-> receiver], NoError, 0)

\* A loop that reads a character before it looks whether the receiver has
\* room for it.
RECURSIVE ReadConsecutiveCharactersIntoLoop_ReadsBeforeRoom(_, _, _, _, _)
ReadConsecutiveCharactersIntoLoop_ReadsBeforeRoom(nib, matchFunction, wanted, receiver, i) ==
    LET r == ReadCharacter(nib)
    IN  IF i >= Len(receiver)
        THEN Result(r.nib, [count |-> Len(receiver), receiver |-> receiver], NoError, 0)
        ELSE IF r.err # NoError
             THEN IF r.err = EOF
                  THEN IF i = 0
                       THEN Result(r.nib, [count |-> 0, receiver |-> receiver], EOF, 0)
                       ELSE Result(r.nib, [count |-> i, receiver |-> receiver], NoError, 0)
                  ELSE Result(r.nib, [count |-> -1, receiver |-> receiver], r.err, 0)
             ELSE IF CharacterMatchingFunction(matchFunction, r.val) = wanted
                  THEN ReadConsecutiveCharactersIntoLoop_ReadsBeforeRoom(
                           r.nib, matchFunction, wanted,
                           [receiver EXCEPT ![i + 1] = r.val], i + 1)
                  ELSE Result(UnreadCharacter(r.nib).nib,
                              [count |-> i, receiver |-> receiver], NoError, 0)

\* A loop that hands the end of the stream on with the count it has reached.
RECURSIVE ReadConsecutiveCharactersIntoLoop_CountWithEOF(_, _, _, _, _)
ReadConsecutiveCharactersIntoLoop_CountWithEOF(nib, matchFunction, wanted, receiver, i) ==
    IF i >= Len(receiver)
    THEN Result(nib, [count |-> Len(receiver), receiver |-> receiver], NoError, 0)
    ELSE LET r == ReadCharacter(nib)
         IN  IF r.err # NoError
             THEN IF r.err = EOF
                  THEN Result(r.nib, [count |-> i, receiver |-> receiver], EOF, 0)
                  ELSE Result(r.nib, [count |-> -1, receiver |-> receiver], r.err, 0)
             ELSE IF CharacterMatchingFunction(matchFunction, r.val) = wanted
                  THEN ReadConsecutiveCharactersIntoLoop_CountWithEOF(
                           r.nib, matchFunction, wanted,
                           [receiver EXCEPT ![i + 1] = r.val], i + 1)
                  ELSE Result(UnreadCharacter(r.nib).nib,
                              [count |-> i, receiver |-> receiver], NoError, 0)

\* The for loop of ReadConsecutiveCharactersMatchingInto (wanted = TRUE) and
\* of ReadConsecutiveCharactersNotMatchingInto (wanted = FALSE), from its
\* i-th round on.  The value returned is the count with the receiver as the
\* call left it.
RECURSIVE ReadConsecutiveCharactersIntoLoop(_, _, _, _, _)
ReadConsecutiveCharactersIntoLoop(nib, matchFunction, wanted, receiver, i) ==
    IF i >= Len(receiver)
    THEN Result(nib, [count |-> Len(receiver), receiver |-> receiver], NoError, 0)
    ELSE LET r == ReadCharacter(nib)
         IN  IF r.err # NoError
             THEN IF r.err = EOF
                  THEN IF i = 0
                       THEN Result(r.nib, [count |-> 0, receiver |-> receiver], EOF, 0)
                       ELSE Result(r.nib, [count |-> i, receiver |-> receiver], NoError, 0)
                  ELSE Result(r.nib, [count |-> -1, receiver |-> receiver], r.err, 0)
             ELSE IF CharacterMatchingFunction(matchFunction, r.val) = wanted
                  THEN ReadConsecutiveCharactersIntoLoop(
                           r.nib, matchFunction, wanted,
                           [receiver EXCEPT ![i + 1] = r.val], i + 1)
                  ELSE Result(UnreadCharacter(r.nib).nib,
                              [count |-> i, receiver |-> receiver], NoError, 0)

ReadConsecutiveCharactersMatchingInto(nib, matchFunction, receiver) ==
    ReadConsecutiveCharactersIntoLoop(nib, matchFunction, TRUE, receiver, 0)

ReadConsecutiveCharactersNotMatchingInto(nib, matchFunction, receiver) ==
    ReadConsecutiveCharactersIntoLoop(nib, matchFunction, FALSE, receiver, 0)

ReadConsecutiveWhitespaceInto(nib, receiver) ==
    ReadConsecutiveCharactersMatchingInto(nib, "runeIsWhitespace", receiver)

ReadConsecutiveWordCharactersInto(nib, receiver) ==
    ReadConsecutiveCharactersNotMatchingInto(nib, "runeIsWhitespace", receiver)


\* The for loop of DiscardConsecutiveCharactersMatching (wanted = TRUE) and
\* of DiscardConsecutiveCharactersNotMatching (wanted = FALSE).
RECURSIVE DiscardConsecutiveCharactersLoop(_, _, _, _)
DiscardConsecutiveCharactersLoop(nib, matchFunction, wanted, discardedCharacters) ==
    LET r == ReadCharacter(nib)
    IN  IF r.err # NoError
        THEN IF r.err = EOF
             THEN IF discardedCharacters = 0
                  THEN Result(r.nib, 0, EOF, 0)
                  ELSE Result(r.nib, discardedCharacters, NoError, 0)
             ELSE Result(r.nib, discardedCharacters, r.err, 0)
        ELSE IF CharacterMatchingFunction(matchFunction, r.val) = wanted
             THEN DiscardConsecutiveCharactersLoop(r.nib, matchFunction, wanted,
                                                   discardedCharacters + 1)
             ELSE Result(UnreadCharacter(r.nib).nib, discardedCharacters, NoError, 0)

DiscardConsecutiveCharactersMatching(nib, matchFunction) ==
    DiscardConsecutiveCharactersLoop(nib, matchFunction, TRUE, 0)

DiscardConsecutiveCharactersNotMatching(nib, matchFunction) ==
    DiscardConsecutiveCharactersLoop(nib, matchFunction, FALSE, 0)

DiscardConsecutiveWhitespaceCharacters(nib) ==
    DiscardConsecutiveCharactersMatching(nib, "runeIsWhitespace")

DiscardConsecutiveWordCharacters(nib) ==
    DiscardConsecutiveCharactersNotMatching(nib, "runeIsWhitespace")

---------------------------------------------------------------------------
(* The UTF-8 package under test: the three fixed nibblers are given the   *)
(* same calls, over the same text.                                        *)

Texts == UNION { [1..n -> TextBytes] : n \in 0..MaxText }

InitUTF8 ==
    /\ family = "utf8"
    /\ \E text \in Texts :
          /\ utf8StringNibbler = NewUTF8StringNibbler(text)
          /\ utf8RuneSliceNibbler = NewUTF8RuneSliceNibbler(stringToRuneSlice(text))
          /\ utf8ByteSliceNibbler = NewUTF8ByteSliceNibbler(text)
    /\ byteSliceNibbler = <<>>
    /\ byteReaderNibbler = <<>>
    /\ utf8NamedSetNibbler = <<>>
    /\ utf8ReaderNibbler = <<>>
    /\ bookendTracker = <<>>
    /\ scan = <<>>
    /\ namedCharacterSetsMap = <<>>
    /\ last = NoOperation

UTF8Step(op, arg, s, r, b) ==
    /\ family = "utf8"
    /\ utf8StringNibbler' = s.nib
    /\ utf8RuneSliceNibbler' = r.nib
    /\ utf8ByteSliceNibbler' = b.nib
    /\ last' = [op |-> op, arg |-> arg,
                pre |-> [string |-> utf8StringNibbler, runes |-> utf8RuneSliceNibbler,
                         bytes |-> utf8ByteSliceNibbler],
                string |-> Returned(s), runes |-> Returned(r), bytes |-> Returned(b)]
    /\ UNCHANGED <<family, byteVars, namedVars, readerVars, bookendVars, scanVars, setsMapVars>>

DoReadCharacter ==
    UTF8Step("ReadCharacter", "",
             ReadCharacter(utf8StringNibbler),
             ReadCharacter(utf8RuneSliceNibbler),
             ReadCharacter(utf8ByteSliceNibbler))

DoUnreadCharacter ==
    UTF8Step("UnreadCharacter", "",
             UnreadCharacter(utf8StringNibbler),
             UnreadCharacter(utf8RuneSliceNibbler),
             UnreadCharacter(utf8ByteSliceNibbler))

DoPeekAtNextCharacter ==
    UTF8Step("PeekAtNextCharacter", "",
             PeekAtNextCharacter(utf8StringNibbler),
             PeekAtNextCharacter(utf8RuneSliceNibbler),
             PeekAtNextCharacter(utf8ByteSliceNibbler))

DoReadConsecutiveCharactersMatching ==
    \E f \in MatchingFunctions :
        UTF8Step("ReadConsecutiveCharactersMatching", f,
                 ReadConsecutiveCharactersMatching(utf8StringNibbler, f),
                 ReadConsecutiveCharactersMatching(utf8RuneSliceNibbler, f),
                 ReadConsecutiveCharactersMatching(utf8ByteSliceNibbler, f))

DoReadConsecutiveCharactersNotMatching ==
    \E f \in MatchingFunctions :
        UTF8Step("ReadConsecutiveCharactersNotMatching", f,
                 ReadConsecutiveCharactersNotMatching(utf8StringNibbler, f),
                 ReadConsecutiveCharactersNotMatching(utf8RuneSliceNibbler, f),
                 ReadConsecutiveCharactersNotMatching(utf8ByteSliceNibbler, f))

DoReadConsecutiveWhitespace ==
    UTF8Step("ReadConsecutiveWhitespace", "",
             ReadConsecutiveWhitespace(utf8StringNibbler),
             ReadConsecutiveWhitespace(utf8RuneSliceNibbler),
             ReadConsecutiveWhitespace(utf8ByteSliceNibbler))

DoReadConsecutiveWordCharacters ==
    UTF8Step("ReadConsecutiveWordCharacters", "",
             ReadConsecutiveWordCharacters(utf8StringNibbler),
             ReadConsecutiveWordCharacters(utf8RuneSliceNibbler),
             ReadConsecutiveWordCharacters(utf8ByteSliceNibbler))

\* The receivers a caller passes: make([]rune, n).
Receivers == { [i \in 1..n |-> 0] : n \in 0..MaxReceiver }

\* The predicate handed to the calls that fill a receiver and to the calls
\* that discard; the whitespace and word forms of these calls hand over
\* runeIsWhitespace.
MatchingFunctionsOfFillsAndDiscards == {"asciiAlphaMatcher"}

\* One call that fills a receiver, made on the three nibblers.
UTF8IntoStep(op, arg, receiver, s, r, b) ==
    /\ family = "utf8"
    /\ utf8StringNibbler' = s.nib
    /\ utf8RuneSliceNibbler' = r.nib
    /\ utf8ByteSliceNibbler' = b.nib
    /\ last' = [op |-> op, arg |-> arg, receiver |-> receiver,
                pre |-> [string |-> utf8StringNibbler, runes |-> utf8RuneSliceNibbler,
                         bytes |-> utf8ByteSliceNibbler],
                string |-> Returned(s), runes |-> Returned(r), bytes |-> Returned(b)]
    /\ UNCHANGED <<family, byteVars, namedVars, readerVars, bookendVars, scanVars, setsMapVars>>

DoReadConsecutiveCharactersMatchingInto ==
    \E f \in MatchingFunctionsOfFillsAndDiscards, receiver \in Receivers :
        UTF8IntoStep("ReadConsecutiveCharactersMatchingInto", f, receiver,
                     ReadConsecutiveCharactersMatchingInto(utf8StringNibbler, f, receiver),
                     ReadConsecutiveCharactersMatchingInto(utf8RuneSliceNibbler, f, receiver),
                     ReadConsecutiveCharactersMatchingInto(utf8ByteSliceNibbler, f, receiver))

DoReadConsecutiveCharactersNotMatchingInto ==
    \E f \in MatchingFunctionsOfFillsAndDiscards, receiver \in Receivers :
        UTF8IntoStep("ReadConsecutiveCharactersNotMatchingInto", f, receiver,
                     ReadConsecutiveCharactersNotMatchingInto(utf8StringNibbler, f, receiver),
                     ReadConsecutiveCharactersNotMatchingInto(utf8RuneSliceNibbler, f, receiver),
                     ReadConsecutiveCharactersNotMatchingInto(utf8ByteSliceNibbler, f, receiver))

DoReadConsecutiveWhitespaceInto ==
    \E receiver \in Receivers :
        UTF8IntoStep("ReadConsecutiveWhitespaceInto", "", receiver,
                     ReadConsecutiveWhitespaceInto(utf8StringNibbler, receiver),
                     ReadConsecutiveWhitespaceInto(utf8RuneSliceNibbler, receiver),
                     ReadConsecutiveWhitespaceInto(utf8ByteSliceNibbler, receiver))

DoReadConsecutiveWordCharactersInto ==
    \E receiver \in Receivers :
        UTF8IntoStep("ReadConsecutiveWordCharactersInto", "", receiver,
                     ReadConsecutiveWordCharactersInto(utf8StringNibbler, receiver),
                     ReadConsecutiveWordCharactersInto(utf8RuneSliceNibbler, receiver),
                     ReadConsecutiveWordCharactersInto(utf8ByteSliceNibbler, receiver))

DoDiscardConsecutiveCharactersMatching ==
    \E f \in MatchingFunctionsOfFillsAndDiscards :
        UTF8Step("DiscardConsecutiveCharactersMatching", f,
                 DiscardConsecutiveCharactersMatching(utf8StringNibbler, f),
                 DiscardConsecutiveCharactersMatching(utf8RuneSliceNibbler, f),
                 DiscardConsecutiveCharactersMatching(utf8ByteSliceNibbler, f))

DoDiscardConsecutiveCharactersNotMatching ==
    \E f \in MatchingFunctionsOfFillsAndDiscards :
        UTF8Step("DiscardConsecutiveCharactersNotMatching", f,
                 DiscardConsecutiveCharactersNotMatching(utf8StringNibbler, f),
                 DiscardConsecutiveCharactersNotMatching(utf8RuneSliceNibbler, f),
                 DiscardConsecutiveCharactersNotMatching(utf8ByteSliceNibbler, f))

DoDiscardConsecutiveWhitespaceCharacters ==
    UTF8Step("DiscardConsecutiveWhitespaceCharacters", "",
             DiscardConsecutiveWhitespaceCharacters(utf8StringNibbler),
             DiscardConsecutiveWhitespaceCharacters(utf8RuneSliceNibbler),
             DiscardConsecutiveWhitespaceCharacters(utf8ByteSliceNibbler))

DoDiscardConsecutiveWordCharacters ==
    UTF8Step("DiscardConsecutiveWordCharacters", "",
             DiscardConsecutiveWordCharacters(utf8StringNibbler),
             DiscardConsecutiveWordCharacters(utf8RuneSliceNibbler),
             DiscardConsecutiveWordCharacters(utf8ByteSliceNibbler))

NextUTF8 ==
    \/ DoReadCharacter
    \/ DoUnreadCharacter
    \/ DoPeekAtNextCharacter
    \/ DoReadConsecutiveCharactersMatching
    \/ DoReadConsecutiveCharactersNotMatching
    \/ DoReadConsecutiveWhitespace
    \/ DoReadConsecutiveWordCharacters
    \/ DoReadConsecutiveCharactersMatchingInto
    \/ DoReadConsecutiveCharactersNotMatchingInto
    \/ DoReadConsecutiveWhitespaceInto
    \/ DoReadConsecutiveWordCharactersInto
    \/ DoDiscardConsecutiveCharactersMatching
    \/ DoDiscardConsecutiveCharactersNotMatching
    \/ DoDiscardConsecutiveWhitespaceCharacters
    \/ DoDiscardConsecutiveWordCharacters

SpecUTF8 == InitUTF8 /\ [][NextUTF8]_vars

\* The same calls over valid UTF-8 only: texts of up to MaxCharacters
\* characters among " ", "a", U+00A9 and U+FFFD, whose encoding EF BF BD is
\* valid UTF-8.
MaxCharacters == 2

ValidCharacters == {<<32>>, <<97>>, <<194, 169>>, <<239, 191, 189>>}

RECURSIVE ValidTextsOf(_)
ValidTextsOf(n) ==
    IF n = 0 THEN {<<>>}
    ELSE LET shorter == ValidTextsOf(n - 1)
         IN  shorter \cup { s \o c : s \in shorter, c \in ValidCharacters }

ValidTexts == ValidTextsOf(MaxCharacters)

InitValidUTF8 ==
    /\ family = "utf8"
    /\ \E text \in ValidTexts :
          /\ utf8StringNibbler = NewUTF8StringNibbler(text)
          /\ utf8RuneSliceNibbler = NewUTF8RuneSliceNibbler(stringToRuneSlice(text))
          /\ utf8ByteSliceNibbler = NewUTF8ByteSliceNibbler(text)
    /\ byteSliceNibbler = <<>>
    /\ byteReaderNibbler = <<>>
    /\ utf8NamedSetNibbler = <<>>
    /\ utf8ReaderNibbler = <<>>
    /\ bookendTracker = <<>>
    /\ scan = <<>>
    /\ namedCharacterSetsMap = <<>>
    /\ last = NoOperation

SpecValidUTF8 == InitValidUTF8 /\ [][NextUTF8]_vars

---------------------------------------------------------------------------
(* UTF8StringNibbler, the revision with a stack of character widths and    *)
(* named character sets                                                    *)

\* The number of widths stack.NewBoundedDiscardingStack(10) keeps.
StackCapacity == 10

\* A stack that keeps every width pushed.
Push_KeepsEverything(stack, v) == Append(stack, v)

\* Push on the bounded discarding stack: when full, the oldest entry goes.
Push(stack, v) ==
    IF Len(stack) >= StackCapacity THEN Append(Tail(stack), v) ELSE Append(stack, v)

\* The named sets of runes a caller attaches, and the names it asks for.
UnicodeSetsMaps ==
    { SetsMap(("set-a" :> {97, 169}) @@ ("set-empty" :> {})) }
UnicodeSetNames == {"set-a", "set-empty", "foo"}

UTF8StringNibbler2_New(nibbleString) ==
    [kind |-> "named",
     backingString |-> nibbleString,
     indexInStringOfNextReadByte |-> 0,
     stackOfLastTenCharacterByteLengths |-> <<>>,
     namedCharacterSetsMap |-> NilSetsMap]

UTF8StringNibbler2_ReadCaracter(nib) ==
    IF nib.indexInStringOfNextReadByte >= Len(nib.backingString)
    THEN Result(nib, 0, EOF, 0)
    ELSE LET d == DecodeRuneInString(From(nib.backingString, nib.indexInStringOfNextReadByte))
         IN  IF d.r = RuneError
             THEN Result(nib, 0, InvalidEncoding, 0)
             ELSE Result([nib EXCEPT !.indexInStringOfNextReadByte = @ + d.size,
                                     !.stackOfLastTenCharacterByteLengths = Push(@, d.size)],
                         d.r, NoError, 0)

\* An unread that takes a width off the stack and goes back by one byte.
UTF8StringNibbler2_UnreadCharacter_OneByte(nib) ==
    LET stack == nib.stackOfLastTenCharacterByteLengths
    IN  IF Len(stack) = 0
        THEN Result(nib, 0, AtStreamStart, 0)
        ELSE Result([nib EXCEPT !.indexInStringOfNextReadByte = @ - 1,
                                !.stackOfLastTenCharacterByteLengths =
                                    SubSeq(stack, 1, Len(stack) - 1)],
                    0, NoError, 0)

UTF8StringNibbler2_UnreadCharacter(nib) ==
    LET stack == nib.stackOfLastTenCharacterByteLengths
    IN  IF Len(stack) = 0
        THEN Result(nib, 0, AtStreamStart, 0)
        ELSE Result([nib EXCEPT !.indexInStringOfNextReadByte = @ - stack[Len(stack)],
                                !.stackOfLastTenCharacterByteLengths =
                                    SubSeq(stack, 1, Len(stack) - 1)],
                    0, NoError, 0)

UTF8StringNibbler2_PeekAtNextCharacter(nib) ==
    IF nib.indexInStringOfNextReadByte >= Len(nib.backingString)
    THEN Result(nib, 0, EOF, 0)
    ELSE LET d == DecodeRuneInString(From(nib.backingString, nib.indexInStringOfNextReadByte))
         IN  IF d.r = RuneError
             THEN Result(nib, 0, InvalidEncoding, 0)
             ELSE Result(nib, d.r, NoError, 0)

UTF8StringNibbler2_AddNamedCharacterSetsMap(nib, setsMap) ==
    Result([nib EXCEPT !.namedCharacterSetsMap = setsMap], 0, NoError, 0)

\* A loop that drops the end of the stream once it has read a character.
RECURSIVE ReadNextCharactersLoop_AbsorbsEOF(_, _, _, _)
ReadNextCharactersLoop_AbsorbsEOF(nib, set, wanted, matchingRunes) ==
    LET r == UTF8StringNibbler2_ReadCaracter(nib)
    IN  IF r.err # NoError
        THEN Result(r.nib, matchingRunes,
                    IF r.err = EOF /\ matchingRunes # <<>> THEN NoError ELSE r.err, 0)
        ELSE IF (r.val \in set) # wanted
             THEN Result(UTF8StringNibbler2_UnreadCharacter(r.nib).nib, matchingRunes,
                         NoError, 0)
             ELSE ReadNextCharactersLoop_AbsorbsEOF(r.nib, set, wanted,
                                                    Append(matchingRunes, r.val))

\* The for loop of ReadNextCharactersMatchingSet (wanted = TRUE) and of
\* ReadNextCharactersNotMatchingSet (wanted = FALSE).
RECURSIVE ReadNextCharactersLoop(_, _, _, _)
ReadNextCharactersLoop(nib, set, wanted, matchingRunes) ==
    LET r == UTF8StringNibbler2_ReadCaracter(nib)
    IN  IF r.err # NoError
        THEN Result(r.nib, matchingRunes, r.err, 0)
        ELSE IF (r.val \in set) # wanted
             THEN Result(UTF8StringNibbler2_UnreadCharacter(r.nib).nib, matchingRunes,
                         NoError, 0)
             ELSE ReadNextCharactersLoop(r.nib, set, wanted, Append(matchingRunes, r.val))

UTF8StringNibbler2_ReadNextCharactersMatchingSet(nib, setName) ==
    IF nib.namedCharacterSetsMap.isNil
    THEN Result(nib, <<>>, UndefinedSet, 0)
    ELSE IF setName \notin DOMAIN nib.namedCharacterSetsMap.mapOfSetsByName
    THEN Result(nib, <<>>, UndefinedSet, 0)
    ELSE ReadNextCharactersLoop(nib, nib.namedCharacterSetsMap.mapOfSetsByName[setName],
                                TRUE, <<>>)

UTF8StringNibbler2_ReadNextCharactersNotMatchingSet(nib, setName) ==
    IF nib.namedCharacterSetsMap.isNil
    THEN Result(nib, <<>>, UndefinedSet, 0)
    ELSE IF setName \notin DOMAIN nib.namedCharacterSetsMap.mapOfSetsByName
    THEN Result(nib, <<>>, UndefinedSet, 0)
    ELSE ReadNextCharactersLoop(nib, nib.namedCharacterSetsMap.mapOfSetsByName[setName],
                                FALSE, <<>>)

InitNamed ==
    /\ family = "named"
    /\ \E text \in Texts : utf8NamedSetNibbler = UTF8StringNibbler2_New(text)
    /\ byteSliceNibbler = <<>>
    /\ byteReaderNibbler = <<>>
    /\ utf8StringNibbler = <<>>
    /\ utf8RuneSliceNibbler = <<>>
    /\ utf8ByteSliceNibbler = <<>>
    /\ utf8ReaderNibbler = <<>>
    /\ bookendTracker = <<>>
    /\ scan = <<>>
    /\ namedCharacterSetsMap = <<>>
    /\ last = NoOperation

NamedStep(op, arg, r) ==
    /\ family = "named"
    /\ utf8NamedSetNibbler' = r.nib
    /\ last' = [op |-> op, arg |-> arg,
                pre |-> [named |-> utf8NamedSetNibbler],
                named |-> Returned(r)]
    /\ UNCHANGED <<family, byteVars, utf8Vars, readerVars, bookendVars, scanVars, setsMapVars>>

ReadCaracter ==
    NamedStep("ReadCaracter", "", UTF8StringNibbler2_ReadCaracter(utf8NamedSetNibbler))

UnreadCharacterOfNamed ==
    NamedStep("UnreadCharacter", "", UTF8StringNibbler2_UnreadCharacter(utf8NamedSetNibbler))

PeekAtNextCharacterOfNamed ==
    NamedStep("PeekAtNextCharacter", "",
              UTF8StringNibbler2_PeekAtNextCharacter(utf8NamedSetNibbler))

AddUnicodeCharacterSetsMap ==
    \E setsMap \in UnicodeSetsMaps :
        NamedStep("AddNamedCharacterSetsMap", "",
                  UTF8StringNibbler2_AddNamedCharacterSetsMap(utf8NamedSetNibbler, setsMap))

ReadNextCharactersMatchingSet ==
    \E setName \in UnicodeSetNames :
        NamedStep("ReadNextCharactersMatchingSet", setName,
                  UTF8StringNibbler2_ReadNextCharactersMatchingSet(utf8NamedSetNibbler, setName))

ReadNextCharactersNotMatchingSet ==
    \E setName \in UnicodeSetNames :
        NamedStep("ReadNextCharactersNotMatchingSet", setName,
                  UTF8StringNibbler2_ReadNextCharactersNotMatchingSet(utf8NamedSetNibbler,
                                                                      setName))

NextNamed ==
    \/ ReadCaracter
    \/ UnreadCharacterOfNamed
    \/ PeekAtNextCharacterOfNamed
    \/ AddUnicodeCharacterSetsMap
    \/ ReadNextCharactersMatchingSet
    \/ ReadNextCharactersNotMatchingSet

SpecNamed == InitNamed /\ [][NextNamed]_vars

\* The run-time panic of a slice expression whose bound is out of range.
SliceBoundsOutOfRange == "SliceBoundsOutOfRange"

\* The for loop of ReadCharactersMatchingInto (wanted = TRUE) and of
\* ReadCharactersNotMatchingInto (wanted = FALSE).  Both ways out of the loop
\* before the receiver is full pass through `receiver = receiver[:i-1]`,
\* which panics when i is 0 and otherwise changes the method's own slice
\* header only.
RECURSIVE ReadCharactersIntoLoop(_, _, _, _, _)
ReadCharactersIntoLoop(nib, matcher, wanted, receiver, i) ==
    IF i >= Len(receiver)
    THEN Result(nib, receiver, NoError, 0)
    ELSE LET r == UTF8StringNibbler2_ReadCaracter(nib)
         IN  IF r.err # NoError
             THEN IF i - 1 < 0
                  THEN Result(r.nib, receiver, SliceBoundsOutOfRange, 0)
                  ELSE Result(r.nib, receiver, r.err, 0)
             ELSE IF CharacterMatchingFunction(matcher, r.val) = wanted
                  THEN ReadCharactersIntoLoop(r.nib, matcher, wanted,
                                              [receiver EXCEPT ![i + 1] = r.val], i + 1)
                  ELSE LET unread == UTF8StringNibbler2_UnreadCharacter(r.nib).nib
                       IN  IF i - 1 < 0
                           THEN Result(unread, receiver, SliceBoundsOutOfRange, 0)
                           ELSE Result(unread, receiver, NoError, 0)

UTF8StringNibbler2_ReadCharactersMatchingInto(nib, matcher, receiver) ==
    ReadCharactersIntoLoop(nib, matcher, TRUE, receiver, 0)

UTF8StringNibbler2_ReadCharactersNotMatchingInto(nib, matcher, receiver) ==
    ReadCharactersIntoLoop(nib, matcher, FALSE, receiver, 0)

\* The calls that fill a receiver, made on the string nibbler with the stack
\* of widths; what the call returned is kept with the receiver as the call
\* left it.
ReadCharactersMatchingInto ==
    \E matcher \in MatchingFunctionsOfFillsAndDiscards, receiver \in Receivers :
        NamedStep("ReadCharactersMatchingInto", matcher,
                  UTF8StringNibbler2_ReadCharactersMatchingInto(utf8NamedSetNibbler,
                                                                matcher, receiver))

ReadCharactersNotMatchingInto ==
    \E matcher \in MatchingFunctionsOfFillsAndDiscards, receiver \in Receivers :
        NamedStep("ReadCharactersNotMatchingInto", matcher,
                  UTF8StringNibbler2_ReadCharactersNotMatchingInto(utf8NamedSetNibbler,
                                                                   matcher, receiver))

NextNamedInto ==
    \/ ReadCaracter
    \/ UnreadCharacterOfNamed
    \/ ReadCharactersMatchingInto
    \/ ReadCharactersNotMatchingInto

SpecNamedInto == InitNamed /\ [][NextNamedInto]_vars

\* Texts with more characters than the stack of widths holds: up to
\* MaxHistoryText repetitions of "a", of U+00A9 and of the two in turn.
MaxHistoryText == 11

RECURSIVE Repeated(_, _)
Repeated(unit, n) == IF n = 0 THEN <<>> ELSE unit \o Repeated(unit, n - 1)

HistoryTexts ==
    { Repeated(unit, n) : unit \in {<<97>>, <<194, 169>>, <<97, 194, 169>>},
                          n \in 0..MaxHistoryText }

InitHistory ==
    /\ family = "named"
    /\ \E text \in HistoryTexts : utf8NamedSetNibbler = UTF8StringNibbler2_New(text)
    /\ byteSliceNibbler = <<>>
    /\ byteReaderNibbler = <<>>
    /\ utf8StringNibbler = <<>>
    /\ utf8RuneSliceNibbler = <<>>
    /\ utf8ByteSliceNibbler = <<>>
    /\ utf8ReaderNibbler = <<>>
    /\ bookendTracker = <<>>
    /\ scan = <<>>
    /\ namedCharacterSetsMap = <<>>
    /\ last = NoOperation

NextHistory ==
    \/ ReadCaracter
    \/ UnreadCharacterOfNamed
    \/ PeekAtNextCharacterOfNamed

SpecHistory == InitHistory /\ [][NextHistory]_vars


---------------------------------------------------------------------------
(* UTF8ReaderNibbler.  The struct has no fields and its methods read       *)
(* nothing; the reader a caller makes the nibbler over is kept beside it   *)
(* to say what the nibbler was made over.                                  *)

\* The ways the bytes of a text reach a reader in successive reads, none of
\* them empty.
RECURSIVE Splits(_)
Splits(s) ==
    IF s = <<>> THEN {<<>>}
    ELSE UNION { { <<DataRead(UpTo(s, k))>> \o r : r \in Splits(From(s, k)) } :
                 k \in 1..Len(s) }

NewUTF8ReaderNibbler(reader) == [kind |-> "utf8reader", reader |-> reader]

UTF8ReaderNibbler_ReadCharacter(nib) == Result(nib, 0, NoError, 0)

UTF8ReaderNibbler_UnreadCharacter(nib) == Result(nib, 0, NoError, 0)

UTF8ReaderNibbler_PeekAtNextCharacter(nib) == Result(nib, 0, NoError, 0)

InitUTF8Reader ==
    /\ family = "utf8reader"
    /\ \E text \in Texts :
          \E script \in Splits(text) :
              utf8ReaderNibbler = NewUTF8ReaderNibbler([script |-> script, used |-> 0])
    /\ byteSliceNibbler = <<>>
    /\ byteReaderNibbler = <<>>
    /\ utf8StringNibbler = <<>>
    /\ utf8RuneSliceNibbler = <<>>
    /\ utf8ByteSliceNibbler = <<>>
    /\ utf8NamedSetNibbler = <<>>
    /\ bookendTracker = <<>>
    /\ scan = <<>>
    /\ namedCharacterSetsMap = <<>>
    /\ last = NoOperation

UTF8ReaderStep(op, r) ==
    /\ family = "utf8reader"
    /\ utf8ReaderNibbler' = r.nib
    /\ last' = [op |-> op, arg |-> "",
                pre |-> [utf8reader |-> utf8ReaderNibbler],
                utf8reader |-> Returned(r)]
    /\ UNCHANGED <<family, byteVars, utf8Vars, namedVars, bookendVars, scanVars, setsMapVars>>

ReadCharacterOfReader ==
    UTF8ReaderStep("ReadCharacter", UTF8ReaderNibbler_ReadCharacter(utf8ReaderNibbler))

UnreadCharacterOfReader ==
    UTF8ReaderStep("UnreadCharacter", UTF8ReaderNibbler_UnreadCharacter(utf8ReaderNibbler))

PeekAtNextCharacterOfReader ==
    UTF8ReaderStep("PeekAtNextCharacter",
                   UTF8ReaderNibbler_PeekAtNextCharacter(utf8ReaderNibbler))

NextUTF8Reader ==
    \/ ReadCharacterOfReader
    \/ UnreadCharacterOfReader
    \/ PeekAtNextCharacterOfReader

SpecUTF8Reader == InitUTF8Reader /\ [][NextUTF8Reader]_vars


---------------------------------------------------------------------------
(* The bookend tracker.  The tests call StartBookending,                   *)
(* CharactersSinceStartOfBookend and StopBookending on a UTF8StringNibbler; *)
(* the methods are not among the sources, so they are modelled from their  *)
(* specification: a mark that is a saved position or no mark, set by       *)
(* StartBookend, which "fails with AlreadyActive if a mark exists, or      *)
(* EndOfStream if invoked exactly at end-of-data"; UnitsSinceMark returns  *)
(* "every unit from the mark (inclusive) to the current position           *)
(* (exclusive of the next-unread unit)" and "fails with NoActiveMark if    *)
(* none is set"; StopBookend is the "identical extraction" and "clears the *)
(* mark afterward".  Reading and peeking are those of the nibbler.  What a *)
(* retraction behind the mark does to the span is not specified, and       *)
(* UnreadCharacter is not among the calls made here.                       *)

NoMark == -1

NewBookendTracker(nibbleString) ==
    [kind |-> "bookend", nibbler |-> NewUTF8StringNibbler(nibbleString), mark |-> NoMark]

Bookend_ReadCharacter(tracker) ==
    LET r == UTF8StringNibbler_ReadCharacter(tracker.nibbler)
    IN  Result([tracker EXCEPT !.nibbler = r.nib], r.val, r.err, 0)

Bookend_PeekAtNextCharacter(tracker) ==
    LET r == UTF8StringNibbler_PeekAtNextCharacter(tracker.nibbler)
    IN  Result([tracker EXCEPT !.nibbler = r.nib], r.val, r.err, 0)

\* A start that moves the mark of a tracker that has one.
StartBookending_Restarts(tracker) ==
    IF tracker.nibbler.indexInStringOfNextReadByte >= Len(tracker.nibbler.backingString)
    THEN Result(tracker, 0, EOF, 0)
    ELSE Result([tracker EXCEPT !.mark = tracker.nibbler.indexInStringOfNextReadByte],
                0, IF tracker.mark # NoMark THEN AlreadyActive ELSE NoError, 0)

StartBookending(tracker) ==
    IF tracker.mark # NoMark
    THEN Result(tracker, 0, AlreadyActive, 0)
    ELSE IF tracker.nibbler.indexInStringOfNextReadByte >= Len(tracker.nibbler.backingString)
    THEN Result(tracker, 0, EOF, 0)
    ELSE Result([tracker EXCEPT !.mark = tracker.nibbler.indexInStringOfNextReadByte],
                0, NoError, 0)

\* An extraction that takes in the character after the position.
CharactersSinceStartOfBookend_WithNext(tracker) ==
    IF tracker.mark = NoMark
    THEN Result(tracker, <<>>, NoActiveMark, 0)
    ELSE LET peek == UTF8StringNibbler_PeekAtNextCharacter(tracker.nibbler)
             span == stringToRuneSlice(SubSeq(tracker.nibbler.backingString,
                                              tracker.mark + 1,
                                              tracker.nibbler.indexInStringOfNextReadByte))
         IN  Result(tracker,
                    IF peek.err = NoError THEN Append(span, peek.val) ELSE span,
                    NoError, 0)

\* An extraction that forgets the mark.
CharactersSinceStartOfBookend_Clearing(tracker) ==
    IF tracker.mark = NoMark
    THEN Result(tracker, <<>>, NoActiveMark, 0)
    ELSE Result([tracker EXCEPT !.mark = NoMark],
                stringToRuneSlice(SubSeq(tracker.nibbler.backingString,
                                         tracker.mark + 1,
                                         tracker.nibbler.indexInStringOfNextReadByte)),
                NoError, 0)

CharactersSinceStartOfBookend(tracker) ==
    IF tracker.mark = NoMark
    THEN Result(tracker, <<>>, NoActiveMark, 0)
    ELSE Result(tracker,
                stringToRuneSlice(SubSeq(tracker.nibbler.backingString,
                                         tracker.mark + 1,
                                         tracker.nibbler.indexInStringOfNextReadByte)),
                NoError, 0)

\* A stop that returns the characters from the start of the text.
StopBookending_FromTheStart(tracker) ==
    IF tracker.mark = NoMark
    THEN Result(tracker, <<>>, NoActiveMark, 0)
    ELSE Result([tracker EXCEPT !.mark = NoMark],
                stringToRuneSlice(UpTo(tracker.nibbler.backingString,
                                       tracker.nibbler.indexInStringOfNextReadByte)),
                NoError, 0)

\* A stop that keeps the mark.
StopBookending_KeepsTheMark(tracker) ==
    CharactersSinceStartOfBookend(tracker)

StopBookending(tracker) ==
    LET r == CharactersSinceStartOfBookend(tracker)
    IN  IF r.err # NoError THEN r
        ELSE Result([tracker EXCEPT !.mark = NoMark], r.val, NoError, 0)

\* Before the first call: no character read and none peeked since a start.
NoBookendOperation ==
    [op |-> "none", arg |-> "", reads |-> <<>>, peeked |-> FALSE, ended |-> FALSE]

InitBookend ==
    /\ family = "bookend"
    /\ \E text \in Texts : bookendTracker = NewBookendTracker(text)
    /\ byteSliceNibbler = <<>>
    /\ byteReaderNibbler = <<>>
    /\ utf8StringNibbler = <<>>
    /\ utf8RuneSliceNibbler = <<>>
    /\ utf8ByteSliceNibbler = <<>>
    /\ utf8NamedSetNibbler = <<>>
    /\ utf8ReaderNibbler = <<>>
    /\ scan = <<>>
    /\ namedCharacterSetsMap = <<>>
    /\ last = NoBookendOperation

\* One call on the tracker.  Beside the call and what it returned, "last"
\* keeps the characters that ReadCharacter has returned since the start of
\* the bookend, whether the character at the position has been peeked at
\* and not read, and whether a ReadCharacter since the start has met the
\* end of the stream.
BookendStep(op, r) ==
    /\ family = "bookend"
    /\ bookendTracker' = r.nib
    /\ last' = [op |-> op, arg |-> "",
                pre |-> [bookend |-> bookendTracker],
                bookend |-> Returned(r),
                reads |-> IF bookendTracker.mark = NoMark THEN <<>>
                          ELSE IF op = "ReadCharacter" /\ r.err = NoError
                          THEN Append(last.reads, r.val)
                          ELSE last.reads,
                peeked |-> IF bookendTracker.mark = NoMark THEN FALSE
                           ELSE IF op = "PeekAtNextCharacter" /\ r.err = NoError THEN TRUE
                           ELSE IF op = "ReadCharacter" /\ r.err = NoError THEN FALSE
                           ELSE last.peeked,
                ended |-> IF bookendTracker.mark = NoMark THEN FALSE
                          ELSE IF op = "ReadCharacter" /\ r.err = EOF THEN TRUE
                          ELSE last.ended]
    /\ UNCHANGED <<family, byteVars, utf8Vars, namedVars, readerVars, scanVars, setsMapVars>>

ReadCharacterOfBookend ==
    BookendStep("ReadCharacter", Bookend_ReadCharacter(bookendTracker))

PeekAtNextCharacterOfBookend ==
    BookendStep("PeekAtNextCharacter", Bookend_PeekAtNextCharacter(bookendTracker))

DoStartBookending ==
    BookendStep("StartBookending", StartBookending(bookendTracker))

DoCharactersSinceStartOfBookend ==
    BookendStep("CharactersSinceStartOfBookend",
                CharactersSinceStartOfBookend(bookendTracker))

DoStopBookending ==
    BookendStep("StopBookending", StopBookending(bookendTracker))

NextBookend ==
    \/ ReadCharacterOfBookend
    \/ PeekAtNextCharacterOfBookend
    \/ DoStartBookending
    \/ DoCharactersSinceStartOfBookend
    \/ DoStopBookending

SpecBookend == InitBookend /\ [][NextBookend]_vars

---------------------------------------------------------------------------
(* NamedCharacterSetsMap: the two calls that add a set *)

\* The largest number of characters of a string a set is made from.
MaxSetString == 2

\* The encoded characters those strings are made of: NUL, 'a', U+00FF
\* (0xC3 0xBF), U+0100 (0xC4 0x80), and the byte 0xFF, which is no valid
\* encoding.
SetStringCharacters == {<<0>>, <<97>>, <<195, 191>>, <<196, 128>>, <<255>>}

RECURSIVE SetStringsOf(_)
SetStringsOf(n) ==
    IF n = 0 THEN {<<>>}
    ELSE LET shorter == SetStringsOf(n - 1)
         IN  shorter \cup { s \o c : s \in shorter, c \in SetStringCharacters }

SetStrings == SetStringsOf(MaxSetString)

\* The byte arrays a set is made from.
SetByteArrays == {<<>>, <<255>>, <<0, 97>>}

\* The names the sets are added under.
NamesOfAddedSets == {"set-1", "set-2"}

NewNamedCharacterSetsMap == SetsMap(<<>>)

\* The elements of a sequence.
Elements(seq) == { seq[i] : i \in 1..Len(seq) }

\* byte(char).
ByteOfRune(char) == char % 256

\* A range loop over the string gives its runes; those that pass the test
\* become keys of the new set.
AddNamedCharacterSetFromString(setsMap, nameOfSet, stringOfASCIICharacters) ==
    LET mapOfCharacters ==
            { ByteOfRune(char) :
                char \in { c \in Elements(stringToRuneSlice(stringOfASCIICharacters)) :
                             c > 0 /\ c < 255 } }
    IN  [setsMap EXCEPT !.mapOfSetsByName = (nameOfSet :> mapOfCharacters) @@ @]

AddNamedCharacterSetFromByteArray(setsMap, nameOfSet, byteArray) ==
    LET mapOfCharacters == { ByteOfRune(char) : char \in Elements(byteArray) }
    IN  [setsMap EXCEPT !.mapOfSetsByName = (nameOfSet :> mapOfCharacters) @@ @]

InitSetsMap ==
    /\ family = "setsMap"
    /\ namedCharacterSetsMap = NewNamedCharacterSetsMap
    /\ byteSliceNibbler = <<>>
    /\ byteReaderNibbler = <<>>
    /\ utf8StringNibbler = <<>>
    /\ utf8RuneSliceNibbler = <<>>
    /\ utf8ByteSliceNibbler = <<>>
    /\ utf8NamedSetNibbler = <<>>
    /\ utf8ReaderNibbler = <<>>
    /\ bookendTracker = <<>>
    /\ scan = <<>>
    /\ last = [op |-> "none", arg |-> "", from |-> <<>>]

\* One call on the map: the call, the name and what the set is made from.
SetsMapStep(op, nameOfSet, from, setsMap) ==
    /\ family = "setsMap"
    /\ namedCharacterSetsMap' = setsMap
    /\ last' = [op |-> op, arg |-> nameOfSet, from |-> from,
                pre |-> [setsMap |-> namedCharacterSetsMap]]
    /\ UNCHANGED <<family, byteVars, utf8Vars, namedVars, readerVars, bookendVars, scanVars>>

DoAddNamedCharacterSetFromString ==
    \E nameOfSet \in NamesOfAddedSets, s \in SetStrings :
        SetsMapStep("AddNamedCharacterSetFromString", nameOfSet, s,
                    AddNamedCharacterSetFromString(namedCharacterSetsMap, nameOfSet, s))

DoAddNamedCharacterSetFromByteArray ==
    \E nameOfSet \in NamesOfAddedSets, byteArray \in SetByteArrays :
        SetsMapStep("AddNamedCharacterSetFromByteArray", nameOfSet, byteArray,
                    AddNamedCharacterSetFromByteArray(namedCharacterSetsMap, nameOfSet,
                                                      byteArray))

NextSetsMap ==
    \/ DoAddNamedCharacterSetFromString
    \/ DoAddNamedCharacterSetFromByteArray

SpecSetsMap == InitSetsMap /\ [][NextSetsMap]_vars

---------------------------------------------------------------------------
(* The run reads, one pass of their loop at a time.  A run read is         *)
(* SCANNING from its entry into the loop until the pass that returns,      *)
(* after which it is DONE.                                                 *)

SCANNING == "SCANNING"
DONE == "DONE"

\* Before the nibbler that the run reads are made on exists.
NoNibbler == [state |-> "none"]

\* No run read made yet on the nibbler.
NoScan(nib) ==
    [state |-> DONE, op |-> "none", nib |-> nib, from |-> nib,
     members |-> {}, matchFunction |-> "", wanted |-> TRUE,
     run |-> <<>>, err |-> NoError, iterations |-> 0]

\* readNextBytesMatchingSet (wanted = TRUE) and readNextBytesNotMatchingSet
\* (wanted = FALSE) up to their loop: without a map or without the set they
\* return at once.
StartOfReadNextBytes(sc, op, setName, wanted) ==
    LET begun == [NoScan(sc.nib) EXCEPT !.op = op, !.wanted = wanted]
    IN  IF sc.nib.namedCharacterSets.isNil
        THEN [begun EXCEPT !.err = UndefinedSet]
        ELSE LET setMap == retrieveNamedCharacterSet(sc.nib.namedCharacterSets, setName)
             IN  IF setMap.isNil
                 THEN [begun EXCEPT !.err = UndefinedSet]
                 ELSE [begun EXCEPT !.state = SCANNING, !.members = setMap.members]

\* A pass that goes on scanning behind the byte it has unread.
readNextBytesIteration_GoesOn(sc, r) ==
    IF r.err # NoError
    THEN [sc EXCEPT !.state = DONE, !.nib = r.nib, !.err = r.err,
                    !.iterations = @ + 1]
    ELSE IF (r.val \in sc.members) = sc.wanted
         THEN [sc EXCEPT !.nib = r.nib, !.run = Append(@, r.val),
                         !.iterations = @ + 1]
         ELSE [sc EXCEPT !.nib = actualNibbler_UnreadByte(r.nib).nib]

\* One pass of the for loop of readNextBytesMatchingSet and of
\* readNextBytesNotMatchingSet, r being what its ReadByte returned.
readNextBytesIteration(sc, r) ==
    IF r.err # NoError
    THEN [sc EXCEPT !.state = DONE, !.nib = r.nib, !.err = r.err,
                    !.iterations = @ + 1]
    ELSE IF (r.val \in sc.members) = sc.wanted
         THEN [sc EXCEPT !.nib = r.nib, !.run = Append(@, r.val),
                         !.iterations = @ + 1]
         ELSE [sc EXCEPT !.state = DONE,
                         !.nib = actualNibbler_UnreadByte(r.nib).nib,
                         !.err = NoError, !.iterations = @ + 1]

\* ReadConsecutiveCharactersMatching (wanted = TRUE) and
\* ReadConsecutiveCharactersNotMatching (wanted = FALSE) up to their loop.
StartOfReadConsecutiveCharacters(sc, op, matchFunction, wanted) ==
    [NoScan(sc.nib) EXCEPT !.state = SCANNING, !.op = op, !.wanted = wanted,
                           !.matchFunction = matchFunction]

\* One pass of the for loop of ReadConsecutiveCharactersMatching and of
\* ReadConsecutiveCharactersNotMatching, which differ in the error they
\* return with, r being what its ReadCharacter returned.
ReadConsecutiveCharactersIteration(sc, r) ==
    IF r.err # NoError
    THEN [sc EXCEPT !.state = DONE, !.nib = r.nib,
                    !.err = IF r.err = EOF
                            THEN (IF Len(sc.run) = 0 THEN EOF ELSE NoError)
                            ELSE (IF sc.wanted THEN r.err ELSE NoError),
                    !.iterations = @ + 1]
    ELSE IF CharacterMatchingFunction(sc.matchFunction, r.val) = sc.wanted
         THEN [sc EXCEPT !.nib = r.nib, !.run = Append(@, r.val),
                         !.iterations = @ + 1]
         ELSE [sc EXCEPT !.state = DONE, !.nib = UnreadCharacter(r.nib).nib,
                         !.err = NoError, !.iterations = @ + 1]

InitScan ==
    /\ family = "scan"
    /\ scan = NoNibbler
    /\ byteSliceNibbler = <<>>
    /\ byteReaderNibbler = <<>>
    /\ utf8StringNibbler = <<>>
    /\ utf8RuneSliceNibbler = <<>>
    /\ utf8ByteSliceNibbler = <<>>
    /\ utf8NamedSetNibbler = <<>>
    /\ utf8ReaderNibbler = <<>>
    /\ bookendTracker = <<>>
    /\ namedCharacterSetsMap = <<>>
    /\ last = NoOperation

\* A step of a run read: its start, which "last" names, or a pass of its
\* loop.
ScanStep(sc, op, arg) ==
    /\ family = "scan"
    /\ scan' = sc
    /\ last' = [op |-> op, arg |-> arg]
    /\ UNCHANGED <<family, byteVars, utf8Vars, namedVars, readerVars, bookendVars,
                   setsMapVars>>

\* The nibblers the run reads are made on: the byte nibblers with a map of
\* named sets, the UTF-8 nibblers over every text.
NewNibblerOfScan ==
    /\ scan = NoNibbler
    /\ \/ \E script \in Scripts(MaxLen, MaxEmptyReads), setsMap \in SetsMaps :
             \/ ScanStep(NoScan(addNamedCharacterSetsMap(
                                    NewByteSliceNibbler(ScriptBytes(script)), setsMap).nib),
                         "NewByteSliceNibbler", "")
             \/ ScanStep(NoScan(addNamedCharacterSetsMap(
                                    NewByteReaderNibbler(script), setsMap).nib),
                         "NewByteReaderNibbler", "")
       \/ \E text \in Texts :
             \/ ScanStep(NoScan(NewUTF8StringNibbler(text)), "NewUTF8StringNibbler", "")
             \/ ScanStep(NoScan(NewUTF8RuneSliceNibbler(stringToRuneSlice(text))),
                         "NewUTF8RuneSliceNibbler", "")
             \/ ScanStep(NoScan(NewUTF8ByteSliceNibbler(text)),
                         "NewUTF8ByteSliceNibbler", "")

StartReadNextBytesMatchingSet ==
    /\ scan.state = DONE
    /\ scan.nib.kind \in {"slice", "reader"}
    /\ \E setName \in SetNames :
          ScanStep(StartOfReadNextBytes(scan, "ReadNextBytesMatchingSet", setName, TRUE),
                   "ReadNextBytesMatchingSet", setName)

StartReadNextBytesNotMatchingSet ==
    /\ scan.state = DONE
    /\ scan.nib.kind \in {"slice", "reader"}
    /\ \E setName \in SetNames :
          ScanStep(StartOfReadNextBytes(scan, "ReadNextBytesNotMatchingSet", setName, FALSE),
                   "ReadNextBytesNotMatchingSet", setName)

StartReadConsecutiveCharactersMatching ==
    /\ scan.state = DONE
    /\ scan.nib.kind \in {"string", "runes", "bytes"}
    /\ \E matchFunction \in MatchingFunctions :
          ScanStep(StartOfReadConsecutiveCharacters(
                       scan, "ReadConsecutiveCharactersMatching", matchFunction, TRUE),
                   "ReadConsecutiveCharactersMatching", matchFunction)

StartReadConsecutiveCharactersNotMatching ==
    /\ scan.state = DONE
    /\ scan.nib.kind \in {"string", "runes", "bytes"}
    /\ \E matchFunction \in MatchingFunctions :
          ScanStep(StartOfReadConsecutiveCharacters(
                       scan, "ReadConsecutiveCharactersNotMatching", matchFunction, FALSE),
                   "ReadConsecutiveCharactersNotMatching", matchFunction)

IterationOfReadNextBytes ==
    /\ scan.state = SCANNING
    /\ scan.nib.kind \in {"slice", "reader"}
    /\ \E r \in {actualNibbler_ReadByte(scan.nib)} :
          ScanStep(readNextBytesIteration(scan, r), last.op, last.arg)

IterationOfReadConsecutiveCharacters ==
    /\ scan.state = SCANNING
    /\ scan.nib.kind \in {"string", "runes", "bytes"}
    /\ \E r \in {ReadCharacter(scan.nib)} :
          ScanStep(ReadConsecutiveCharactersIteration(scan, r), last.op, last.arg)

NextScan ==
    \/ NewNibblerOfScan
    \/ StartReadNextBytesMatchingSet
    \/ StartReadNextBytesNotMatchingSet
    \/ StartReadConsecutiveCharactersMatching
    \/ StartReadConsecutiveCharactersNotMatching
    \/ IterationOfReadNextBytes
    \/ IterationOfReadConsecutiveCharacters

SpecScan == InitScan /\ [][NextScan]_vars

\* A loop that has been entered runs on: nothing but its own return ends
\* the passes of a for loop.
SpecScanRunning ==
    /\ SpecScan
    /\ WF_vars(IterationOfReadNextBytes)
    /\ WF_vars(IterationOfReadConsecutiveCharacters)

---------------------------------------------------------------------------
(* All nibblers *)

Init == InitByte \/ InitUTF8 \/ InitNamed

Next == NextByte \/ NextUTF8 \/ NextNamed

Spec == Init /\ [][Next]_vars

\* The fixed-text UTF-8 nibblers of both revisions over valid UTF-8: the
\* three of the first over the valid texts, the string nibbler with the
\* stack of widths over the valid texts and over the texts longer than its
\* stack.
InitValidNamed ==
    /\ family = "named"
    /\ \E text \in ValidTexts : utf8NamedSetNibbler = UTF8StringNibbler2_New(text)
    /\ byteSliceNibbler = <<>>
    /\ byteReaderNibbler = <<>>
    /\ utf8StringNibbler = <<>>
    /\ utf8RuneSliceNibbler = <<>>
    /\ utf8ByteSliceNibbler = <<>>
    /\ utf8ReaderNibbler = <<>>
    /\ bookendTracker = <<>>
    /\ scan = <<>>
    /\ namedCharacterSetsMap = <<>>
    /\ last = NoOperation

InitFixedText == InitValidUTF8 \/ InitValidNamed \/ InitHistory

NextFixedText == NextUTF8 \/ NextNamed

SpecFixedText == InitFixedText /\ [][NextFixedText]_vars

---------------------------------------------------------------------------
(* Claims *)

ByteOps == {"ReadByte", "UnreadByte", "PeekAtNextByte"}

\* A cursor over B kept as the claims describe it: a position p, Read
\* giving B[p] and moving on, Peek giving B[p], Unread moving back.
ReferenceCursor(B, p, op) ==
    IF op = "ReadByte"
    THEN IF p < Len(B) THEN [val |-> B[p + 1], err |-> NoError, p |-> p + 1]
         ELSE [val |-> 0, err |-> EOF, p |-> p]
    ELSE IF op = "PeekAtNextByte"
    THEN IF p < Len(B) THEN [val |-> B[p + 1], err |-> NoError, p |-> p]
         ELSE [val |-> 0, err |-> EOF, p |-> p]
    ELSE IF p > 0 THEN [val |-> 0, err |-> NoError, p |-> p - 1]
         ELSE [val |-> 0, err |-> AtStreamStart, p |-> p]

\* C1: a ByteSliceNibbler over B starts at position 0 and every ReadByte,
\* UnreadByte and PeekAtNextByte returns what the reference cursor over B
\* returns at the nibbler's position, and leaves the nibbler at the
\* reference cursor's new position.
C1_ByteSliceNibblerIsTheReferenceCursor ==
    family = "byte" =>
        /\ last.op = "none" => byteSliceNibbler.indexInBufferOfNextReadByte = 0
        /\ last.op \in ByteOps =>
              LET ref == ReferenceCursor(last.pre.slice.backingBuffer,
                                         last.pre.slice.indexInBufferOfNextReadByte,
                                         last.op)
              IN  /\ last.slice.err = ref.err
                  /\ ref.err = NoError /\ last.op # "UnreadByte" => last.slice.val = ref.val
                  /\ byteSliceNibbler.indexInBufferOfNextReadByte = ref.p
                  /\ byteSliceNibbler.backingBuffer = last.pre.slice.backingBuffer

\* A peek that follows reads and an unread returns the byte under the cursor.
C1_Witness ==
    /\ family = "byte"
    /\ last.op = "PeekAtNextByte"
    /\ last.slice.err = NoError
    /\ last.pre.slice.indexInBufferOfNextReadByte = 1
    /\ last.slice.val = last.pre.slice.backingBuffer[2]
    /\ last.slice.val # last.pre.slice.backingBuffer[1]

---------------------------------------------------------------------------
(* The nibblers under test, by kind *)

Kinds ==
    IF family = "byte" THEN {"slice", "reader"}
    ELSE IF family = "utf8" THEN {"string", "runes", "bytes"}
    ELSE {"named"}

Current(k) ==
    IF k = "slice" THEN byteSliceNibbler
    ELSE IF k = "reader" THEN byteReaderNibbler
    ELSE IF k = "string" THEN utf8StringNibbler
    ELSE IF k = "runes" THEN utf8RuneSliceNibbler
    ELSE IF k = "bytes" THEN utf8ByteSliceNibbler
    ELSE utf8NamedSetNibbler

\* The cursor of a nibbler, as the nibbler keeps it.
Position(nib) ==
    IF nib.kind = "slice" THEN nib.indexInBufferOfNextReadByte
    ELSE IF nib.kind = "reader" THEN nib.indexOfNextReadByteInBuffer
    ELSE IF nib.kind \in {"string", "named"} THEN nib.indexInStringOfNextReadByte
    ELSE IF nib.kind = "runes" THEN nib.indexOfLastReadRune
    ELSE nib.underlyingStringNibbler.indexInStringOfNextReadByte

AtStart(nib) == Position(nib) = (IF nib.kind = "runes" THEN -1 ELSE 0)

\* Read, Unread and Peek of any nibbler.
AnyRead(nib) ==
    IF nib.kind \in {"slice", "reader"} THEN actualNibbler_ReadByte(nib)
    ELSE IF nib.kind = "named" THEN UTF8StringNibbler2_ReadCaracter(nib)
    ELSE ReadCharacter(nib)

AnyUnread(nib) ==
    IF nib.kind \in {"slice", "reader"} THEN actualNibbler_UnreadByte(nib)
    ELSE IF nib.kind = "named" THEN UTF8StringNibbler2_UnreadCharacter(nib)
    ELSE UnreadCharacter(nib)

AnyPeek(nib) ==
    IF nib.kind \in {"slice", "reader"} THEN actualNibbler_PeekAtNextByte(nib)
    ELSE IF nib.kind = "named" THEN UTF8StringNibbler2_PeekAtNextCharacter(nib)
    ELSE PeekAtNextCharacter(nib)

ReadOps == {"ReadByte", "ReadCharacter"}
PeekOps == {"PeekAtNextByte", "PeekAtNextCharacter"}

\* Every unit of the source a nibbler was made over, in order.
AllUnits(nib) ==
    IF nib.kind = "slice" THEN nib.backingBuffer
    ELSE IF nib.kind = "reader" THEN ScriptBytes(nib.backingReader.script)
    ELSE IF nib.kind \in {"string", "named"} THEN stringToRuneSlice(nib.backingString)
    ELSE IF nib.kind = "runes" THEN nib.backingSlice
    ELSE stringToRuneSlice(nib.underlyingStringNibbler.backingString)

IsPrefix(a, b) == Len(a) <= Len(b) /\ SubSeq(b, 1, Len(a)) = a

\* C2: after a Read that succeeded, an Unread succeeds and restores the
\* position held before the Read, and the Read after it succeeds, returns
\* the same unit and advances to where the first Read had advanced; on the
\* byte slice, byte reader, UTF-8 string, rune slice and UTF-8 byte slice
\* nibblers.
C2_UnreadUndoesRead ==
    last.op \in ReadOps =>
        \A k \in Kinds :
            last[k].err = NoError =>
                LET unread == AnyUnread(Current(k))
                    again == AnyRead(unread.nib)
                IN  /\ unread.err = NoError
                    /\ Position(unread.nib) = Position(last.pre[k])
                    /\ again.err = NoError
                    /\ again.val = last[k].val
                    /\ Position(again.nib) = Position(Current(k))

\* A two-byte character was read by all three UTF-8 nibblers, after another
\* character.
C2_Witness ==
    /\ family = "utf8"
    /\ last.op = "ReadCharacter"
    /\ \A k \in Kinds : last[k].err = NoError /\ last[k].val = 169
    /\ utf8StringNibbler.indexInStringOfNextReadByte = 3

\* C3: a Peek leaves the position where it was, whatever it returns; on the
\* reader-backed nibbler it only appends to the internal buffer, and the
\* other nibblers are left as they were.  After a Peek that succeeded, a
\* further Peek succeeds with the same unit and the same position, and a
\* Read returns that unit.
C3_PeekKeepsThePosition ==
    last.op \in PeekOps =>
        \A k \in Kinds :
            /\ Position(Current(k)) = Position(last.pre[k])
            /\ k = "reader" =>
                  IsPrefix(last.pre[k].internalBuffer, Current(k).internalBuffer)
            /\ k # "reader" => Current(k) = last.pre[k]
            /\ last[k].err = NoError =>
                  LET peek == AnyPeek(Current(k))
                      read == AnyRead(Current(k))
                  IN  /\ peek.err = NoError
                      /\ peek.val = last[k].val
                      /\ Position(peek.nib) = Position(Current(k))
                      /\ read.err = NoError
                      /\ read.val = last[k].val

\* A peek of the reader-backed nibbler that had to call the source: the
\* buffer grew, the position did not move.
C3_Witness ==
    /\ family = "byte"
    /\ last.op = "PeekAtNextByte"
    /\ last.reader.err = NoError
    /\ last.reader.calls = 1
    /\ Len(byteReaderNibbler.internalBuffer) > Len(last.pre.reader.internalBuffer)
    /\ byteReaderNibbler.indexOfNextReadByteInBuffer = 1

\* The number of UnreadByte calls that succeed in a row.
RECURSIVE UnreadsThatSucceed(_)
UnreadsThatSucceed(nib) ==
    LET u == actualNibbler_UnreadByte(nib)
    IN  IF u.err = NoError THEN 1 + UnreadsThatSucceed(u.nib) ELSE 0

\* The nibbler after n UnreadByte calls.
RECURSIVE AfterUnreads(_, _)
AfterUnreads(nib, n) ==
    IF n = 0 THEN nib ELSE AfterUnreads(actualNibbler_UnreadByte(nib).nib, n - 1)

C5_EOFKeepsThePosition ==
    /\ last.op \in ReadOps \cup PeekOps =>
          \A k \in Kinds :
              last[k].err = EOF => Position(Current(k)) = Position(last.pre[k])
    /\ last.op \in ReadOps =>
          \A k \in Kinds :
              last[k].err = EOF /\ ~AtStart(Current(k)) =>
                  LET units == AllUnits(Current(k))
                      unread == AnyUnread(Current(k))
                      peek == AnyPeek(unread.nib)
                      read == AnyRead(peek.nib)
                      again == AnyRead(read.nib)
                  IN  /\ unread.err = NoError
                      /\ peek.err = NoError
                      /\ peek.val = units[Len(units)]
                      /\ read.err = NoError
                      /\ read.val = units[Len(units)]
                      /\ again.err = EOF
                      /\ Position(again.nib) = Position(Current(k))

\* A Read of the reader-backed nibbler that returned EOF from the source
\* after every byte, delivered in more than one read, had been read.
C5_Witness ==
    /\ family = "byte"
    /\ last.op = "ReadByte"
    /\ last.reader.err = EOF
    /\ last.reader.calls = 1
    /\ last.pre.reader.backingReader.used = Len(last.pre.reader.backingReader.script)
    /\ Len(byteReaderNibbler.backingReader.script) > 1
    /\ byteReaderNibbler.indexOfNextReadByteInBuffer = MaxLen

SetOps == {"ReadNextBytesMatchingSet", "ReadNextBytesNotMatchingSet"}

\* C6: when the source delivers its bytes S in non-empty reads and then
\* end-of-data, every ReadByte, UnreadByte, PeekAtNextByte,
\* ReadNextBytesMatchingSet and ReadNextBytesNotMatchingSet of the
\* ByteReaderNibbler returns the value and the error the same call returns
\* on the ByteSliceNibbler over S that was given the same calls before.
C6_ChunkingIndependence ==
    family = "byte" /\ last.op # "none"
    /\ WellBehaved(byteReaderNibbler.backingReader.script) =>
        /\ byteSliceNibbler.backingBuffer = ScriptBytes(byteReaderNibbler.backingReader.script)
        /\ last.reader.val = last.slice.val
        /\ last.reader.err = last.slice.err

\* A set-based read whose run lies across two reads of the source and ends
\* with the stream.
C6_Witness ==
    /\ family = "byte"
    /\ last.op = "ReadNextBytesNotMatchingSet"
    /\ WellBehaved(byteReaderNibbler.backingReader.script)
    /\ Len(byteReaderNibbler.backingReader.script) = 2
    /\ last.reader.calls = 3
    /\ Len(last.reader.val) = 2
    /\ last.reader.val = last.slice.val
    /\ last.reader.err = EOF

\* The answers of the source an operation of the reader-backed nibbler used.
Consumed(pre, post) ==
    SubSeq(post.backingReader.script, pre.backingReader.used + 1, post.backingReader.used)

\* C7: when the source answers a refill of the reader-backed nibbler with no
\* bytes, no end-of-data and no fault, the ReadByte, PeekAtNextByte or
\* set-based read that asked for the refill returns a ProtocolViolation,
\* which is not EOF, and that call of the source is the last one it makes.
C7_EmptyReadIsAProtocolViolation ==
    family = "byte" /\ last.op \in {"ReadByte", "PeekAtNextByte"} \cup SetOps =>
        LET used == Consumed(last.pre.reader, byteReaderNibbler)
        IN  (\E i \in 1..Len(used) : used[i].kind = "empty") =>
                /\ last.reader.err = ProtocolViolation
                /\ last.reader.err # EOF
                /\ \A i \in 1..Len(used) : used[i].kind = "empty" <=> i = Len(used)
                /\ last.reader.calls = Len(used)
                /\ last.op \in {"ReadByte", "PeekAtNextByte"} => last.reader.calls = 1

\* A set-based read that had taken bytes when the source gave an empty read.
C7_Witness ==
    /\ family = "byte"
    /\ last.op = "ReadNextBytesNotMatchingSet"
    /\ last.reader.err = ProtocolViolation
    /\ Len(last.reader.val) > 0
    /\ last.reader.calls = 2

\* C8: a ReadByte or PeekAtNextByte of the reader-backed nibbler calls the
\* source at most once, and only when the position is the number of bytes
\* in the buffer; with unread bytes in the buffer the source is not called.
C8_OneRefillOnlyWhenExhausted ==
    family = "byte" /\ last.op \in {"ReadByte", "PeekAtNextByte"} =>
        LET pre == last.pre.reader
        IN  /\ last.reader.calls <= 1
            /\ Len(Consumed(pre, byteReaderNibbler)) <= last.reader.calls
            /\ last.reader.calls = 1 =>
                  pre.indexOfNextReadByteInBuffer = Len(pre.internalBuffer)
            /\ pre.indexOfNextReadByteInBuffer < Len(pre.internalBuffer) =>
                  /\ last.reader.calls = 0
                  /\ byteReaderNibbler.backingReader = pre.backingReader
                  /\ byteReaderNibbler.internalBuffer = pre.internalBuffer

\* A ReadByte served from the buffer while the source had more to give.
C8_Witness ==
    /\ family = "byte"
    /\ last.op = "ReadByte"
    /\ last.reader.err = NoError
    /\ last.reader.calls = 0
    /\ last.pre.reader.backingReader.used < Len(last.pre.reader.backingReader.script)

\* The bytes of the answers a script gives before its first empty read.
RECURSIVE BytesBeforeEmptyRead(_)
BytesBeforeEmptyRead(script) ==
    IF script = <<>> \/ Head(script).kind = "empty" THEN <<>>
    ELSE Head(script).bytes \o BytesBeforeEmptyRead(Tail(script))

\* The characters of a string before its first byte that starts no valid
\* encoding.
RECURSIVE CharactersBeforeInvalid(_)
CharactersBeforeInvalid(s) ==
    LET d == DecodeRuneInString(s)
    IN  IF d.r = RuneError THEN <<>>
        ELSE <<d.r>> \o CharactersBeforeInvalid(From(s, d.size))

\* The units the source of a nibbler holds from the nibbler's position on,
\* as far as the source delivers them.
UnitsFrom(nib) ==
    IF nib.kind = "slice" THEN From(nib.backingBuffer, nib.indexInBufferOfNextReadByte)
    ELSE IF nib.kind = "reader"
    THEN From(nib.internalBuffer, nib.indexOfNextReadByteInBuffer)
         \o BytesBeforeEmptyRead(From(nib.backingReader.script, nib.backingReader.used))
    ELSE IF nib.kind \in {"string", "named"}
    THEN CharactersBeforeInvalid(From(nib.backingString, nib.indexInStringOfNextReadByte))
    ELSE IF nib.kind = "runes" THEN From(nib.backingSlice, nib.indexOfLastReadRune + 1)
    ELSE CharactersBeforeInvalid(From(nib.underlyingStringNibbler.backingString,
                                      nib.underlyingStringNibbler.indexInStringOfNextReadByte))

RunOps ==
    SetOps \cup {"ReadConsecutiveCharactersMatching", "ReadConsecutiveCharactersNotMatching",
                 "ReadConsecutiveWhitespace", "ReadConsecutiveWordCharacters"}

\* The named-set map attached to a nibbler.
AttachedSetsMap(nib) ==
    IF nib.kind = "named" THEN nib.namedCharacterSetsMap ELSE nib.namedCharacterSets

SetIsDefined(nib, name) ==
    /\ ~AttachedSetsMap(nib).isNil
    /\ name \in DOMAIN AttachedSetsMap(nib).mapOfSetsByName

\* Whether a unit is one the run-consuming operation op(arg) takes.
Qualifies(nib, op, arg, unit) ==
    IF op \in {"ReadNextBytesMatchingSet", "ReadNextCharactersMatchingSet"}
    THEN unit \in AttachedSetsMap(nib).mapOfSetsByName[arg]
    ELSE IF op \in {"ReadNextBytesNotMatchingSet", "ReadNextCharactersNotMatchingSet"}
    THEN unit \notin AttachedSetsMap(nib).mapOfSetsByName[arg]
    ELSE IF op = "ReadConsecutiveCharactersMatching"
    THEN CharacterMatchingFunction(arg, unit)
    ELSE IF op = "ReadConsecutiveCharactersNotMatching"
    THEN ~CharacterMatchingFunction(arg, unit)
    ELSE IF op = "ReadConsecutiveWhitespace" THEN IsSpace(unit)
    ELSE ~IsSpace(unit)

\* The length of the longest run of qualifying units that units starts with.
MaximalRunLength(nib, op, arg, units) ==
    CHOOSE n \in 0..Len(units) :
        /\ \A i \in 1..n : Qualifies(nib, op, arg, units[i])
        /\ n = Len(units) \/ ~Qualifies(nib, op, arg, units[n + 1])

\* The number of bytes of the UTF-8 encoding of a character.
RuneLen(r) == IF r < 128 THEN 1 ELSE IF r < 2048 THEN 2 ELSE IF r < 65536 THEN 3 ELSE 4

RECURSIVE Width(_, _)
Width(kind, run) ==
    IF run = <<>> THEN 0
    ELSE (IF kind \in {"string", "bytes", "named"} THEN RuneLen(Head(run)) ELSE 1)
         + Width(kind, Tail(run))

\* C9: a named-set read of a defined set, a predicate read, a whitespace
\* read and a word read started at position p return the longest run of
\* qualifying units among the units the source delivers from p on (those
\* before its first empty read or its first invalid encoding), in order,
\* and leave the position at p plus the length of the run; the unit after
\* the run, when there is one, is the one the next Read returns.
C9_RunIsMaximal ==
    last.op \in RunOps =>
        \A k \in Kinds :
            (last.op \in SetOps => SetIsDefined(last.pre[k], last.arg)) =>
                LET units == UnitsFrom(last.pre[k])
                    n == MaximalRunLength(last.pre[k], last.op, last.arg, units)
                    run == SubSeq(units, 1, n)
                    next == AnyRead(Current(k))
                IN  /\ last[k].val = run
                    /\ Position(Current(k)) = Position(last.pre[k]) + Width(k, run)
                    /\ n < Len(units) => /\ next.err = NoError
                                         /\ next.val = units[n + 1]

\* A word read that took a two-byte character and stopped before a space.
C9_Witness ==
    /\ family = "utf8"
    /\ last.op = "ReadConsecutiveWordCharacters"
    /\ \A k \in Kinds : last[k].val = <<169>> /\ last[k].err = NoError
    /\ ReadCharacter(utf8StringNibbler).val = 32
    /\ utf8StringNibbler.indexInStringOfNextReadByte = 2

\* C10: a ReadNextBytesMatchingSet or ReadNextBytesNotMatchingSet made
\* before a set map is attached, or naming a set the attached map does not
\* hold, returns an UndefinedSet error and no bytes, calls the source not
\* once and leaves the nibbler as it was; a set the map holds, even an empty
\* one, is never reported as undefined.
C10_UndefinedSetReadsNothing ==
    family = "byte" /\ last.op \in SetOps =>
        \A k \in Kinds :
            IF SetIsDefined(last.pre[k], last.arg)
            THEN last[k].err # UndefinedSet
            ELSE /\ last[k].err = UndefinedSet
                 /\ last[k].val = <<>>
                 /\ last[k].calls = 0
                 /\ Current(k) = last.pre[k]

\* A read naming a set the attached map does not hold, with bytes to read.
C10_Witness ==
    /\ family = "byte"
    /\ last.op = "ReadNextBytesMatchingSet"
    /\ last.arg = "foo"
    /\ ~byteReaderNibbler.namedCharacterSets.isNil
    /\ last.reader.err = UndefinedSet
    /\ last.slice.err = UndefinedSet
    /\ byteSliceNibbler.indexInBufferOfNextReadByte < Len(byteSliceNibbler.backingBuffer)

\* A nibbler whose source has nothing more to give: every unit has been
\* read and, for the reader-backed nibbler, the source has only its
\* end-of-data answer left.
AtEnd(nib) ==
    IF nib.kind = "slice" THEN nib.indexInBufferOfNextReadByte >= Len(nib.backingBuffer)
    ELSE IF nib.kind = "reader"
    THEN /\ nib.indexOfNextReadByteInBuffer >= Len(nib.internalBuffer)
         /\ nib.backingReader.used >= Len(nib.backingReader.script)
    ELSE IF nib.kind \in {"string", "named"}
    THEN nib.indexInStringOfNextReadByte >= Len(nib.backingString)
    ELSE IF nib.kind = "runes" THEN nib.indexOfLastReadRune >= Len(nib.backingSlice) - 1
    ELSE nib.underlyingStringNibbler.indexInStringOfNextReadByte
             >= Len(nib.underlyingStringNibbler.backingString)

\* C11: a named-set read of a defined set, a predicate read, a whitespace
\* read or a word read started at the end of the stream returns an empty
\* run with EOF; started where the next unit does not qualify, it returns
\* an empty run with no error and leaves the position where it was.
C11_EmptyRunAtEndAndBeforeOtherUnit ==
    last.op \in RunOps =>
        \A k \in Kinds :
            (last.op \in SetOps => SetIsDefined(last.pre[k], last.arg)) =>
                LET units == UnitsFrom(last.pre[k])
                IN  /\ AtEnd(last.pre[k]) =>
                          /\ last[k].val = <<>>
                          /\ last[k].err = EOF
                          /\ Position(Current(k)) = Position(last.pre[k])
                    /\ (/\ units # <<>>
                        /\ ~Qualifies(last.pre[k], last.op, last.arg, units[1])) =>
                          /\ last[k].val = <<>>
                          /\ last[k].err = NoError
                          /\ Position(Current(k)) = Position(last.pre[k])

\* A whitespace read in front of a two-byte character, after another
\* character had been read.
C11_Witness ==
    /\ family = "utf8"
    /\ last.op = "ReadConsecutiveWhitespace"
    /\ utf8StringNibbler.indexInStringOfNextReadByte = 1
    /\ PeekAtNextCharacter(utf8StringNibbler).val = 169
    /\ \A k \in Kinds : last[k].val = <<>> /\ last[k].err = NoError

\* Whether the units from the position on are all the source has left: no
\* empty read and no invalid encoding lies between the position and the end.
NothingButUnitsAhead(nib) ==
    IF nib.kind = "slice" \/ nib.kind = "runes" THEN TRUE
    ELSE IF nib.kind = "reader"
    THEN WellBehaved(From(nib.backingReader.script, nib.backingReader.used))
    ELSE IF nib.kind \in {"string", "named"}
    THEN Width("string", UnitsFrom(nib))
             = Len(nib.backingString) - nib.indexInStringOfNextReadByte
    ELSE Width("bytes", UnitsFrom(nib))
             = Len(nib.underlyingStringNibbler.backingString)
                   - nib.underlyingStringNibbler.indexInStringOfNextReadByte

\* Whether op(arg), started at nib, meets qualifying units only, at least
\* one, and then the end of the stream.
RunEndsWithTheStream(nib, op, arg) ==
    LET units == UnitsFrom(nib)
    IN  /\ units # <<>>
        /\ NothingButUnitsAhead(nib)
        /\ \A i \in 1..Len(units) : Qualifies(nib, op, arg, units[i])

\* C12: when every character from the position to the end of the text
\* qualifies and there is at least one, ReadConsecutiveCharactersMatching,
\* ReadConsecutiveCharactersNotMatching, ReadConsecutiveWhitespace and
\* ReadConsecutiveWordCharacters return those characters with no error, and
\* each of the four called next returns EOF.
C12_MatcherAbsorbsEOFAfterARun ==
    family = "utf8" /\ last.op \in RunOps =>
        \A k \in Kinds :
            RunEndsWithTheStream(last.pre[k], last.op, last.arg) =>
                /\ last[k].val = UnitsFrom(last.pre[k])
                /\ last[k].err = NoError
                /\ \A f \in MatchingFunctions :
                      /\ ReadConsecutiveCharactersMatching(Current(k), f).err = EOF
                      /\ ReadConsecutiveCharactersNotMatching(Current(k), f).err = EOF
                /\ ReadConsecutiveWhitespace(Current(k)).err = EOF
                /\ ReadConsecutiveWordCharacters(Current(k)).err = EOF

\* A word read that took the last two characters of the text, one of them
\* two bytes wide.
C12_Witness ==
    /\ family = "utf8"
    /\ last.op = "ReadConsecutiveWordCharacters"
    /\ \A k \in Kinds : last[k].val = <<97, 169>> /\ last[k].err = NoError
    /\ utf8StringNibbler.indexInStringOfNextReadByte = Len(utf8StringNibbler.backingString)

NamedSetOps == {"ReadNextCharactersMatchingSet", "ReadNextCharactersNotMatchingSet"}

\* C13, as claimed: when a read of a defined named set (of bytes on the byte
\* nibblers, of characters on the UTF-8 string nibbler with named sets)
\* meets qualifying units only, at least one, up to the end of the stream,
\* it returns that run with no error.
C13_NamedSetReadAbsorbsEOF ==
    last.op \in SetOps \cup NamedSetOps =>
        \A k \in Kinds :
            (/\ SetIsDefined(last.pre[k], last.arg)
             /\ RunEndsWithTheStream(last.pre[k], last.op, last.arg)) =>
                /\ last[k].val = UnitsFrom(last.pre[k])
                /\ last[k].err = NoError

\* C13, amended: when a read of a defined named set (of bytes on the byte
\* nibblers, of characters on the UTF-8 string nibbler with named sets)
\* meets qualifying units only, at least one, up to the end of the stream,
\* it returns that run together with EOF: the end of the stream is not
\* absorbed.
C13_NamedSetReadReturnsRunWithEOF ==
    last.op \in SetOps \cup NamedSetOps =>
        \A k \in Kinds :
            (/\ SetIsDefined(last.pre[k], last.arg)
             /\ RunEndsWithTheStream(last.pre[k], last.op, last.arg)) =>
                /\ last[k].val = UnitsFrom(last.pre[k])
                /\ last[k].err = EOF

\* A read of a named set of characters that took the last two characters
\* of the text.
C13_Witness ==
    /\ family = "named"
    /\ last.op = "ReadNextCharactersMatchingSet"
    /\ last.arg = "set-a"
    /\ last.named.val = <<97, 169>>
    /\ last.named.err = EOF
    /\ utf8NamedSetNibbler.indexInStringOfNextReadByte = 3

\* C14: on both byte nibblers, a ReadNextBytesMatchingSet or
\* ReadNextBytesNotMatchingSet that takes qualifying bytes up to the very
\* end of the stream returns those bytes together with EOF and leaves the
\* nibbler at the end, where every further named-set read returns no bytes
\* and EOF.
C14_ByteRunToTheEndComesWithEOF ==
    family = "byte" /\ last.op \in SetOps =>
        \A k \in Kinds :
            (/\ SetIsDefined(last.pre[k], last.arg)
             /\ RunEndsWithTheStream(last.pre[k], last.op, last.arg)) =>
                /\ last[k].val = UnitsFrom(last.pre[k])
                /\ Len(last[k].val) > 0
                /\ last[k].err = EOF
                /\ Position(Current(k)) = Len(AllUnits(Current(k)))
                /\ \A name \in DOMAIN AttachedSetsMap(Current(k)).mapOfSetsByName :
                      /\ readNextBytesMatchingSet(Current(k), name).val = <<>>
                      /\ readNextBytesMatchingSet(Current(k), name).err = EOF
                      /\ readNextBytesNotMatchingSet(Current(k), name).val = <<>>
                      /\ readNextBytesNotMatchingSet(Current(k), name).err = EOF

\* A not-matching read started after the first byte that took the rest of
\* the stream, which the source gave in a read of its own.
C14_Witness ==
    /\ family = "byte"
    /\ last.op = "ReadNextBytesNotMatchingSet"
    /\ last.arg = "set-1"
    /\ last.pre.slice.indexInBufferOfNextReadByte = 1
    /\ last.slice.val = <<2>> /\ last.slice.err = EOF
    /\ last.reader.val = <<2>> /\ last.reader.err = EOF
    /\ last.reader.calls = 2

IntoOps ==
    {"ReadConsecutiveCharactersMatchingInto", "ReadConsecutiveCharactersNotMatchingInto",
     "ReadConsecutiveWhitespaceInto", "ReadConsecutiveWordCharactersInto"}

\* The read whose qualifying characters a fill-a-receiver operation takes.
ReadOfInto(op) ==
    IF op = "ReadConsecutiveCharactersMatchingInto" THEN "ReadConsecutiveCharactersMatching"
    ELSE IF op = "ReadConsecutiveCharactersNotMatchingInto"
    THEN "ReadConsecutiveCharactersNotMatching"
    ELSE IF op = "ReadConsecutiveWhitespaceInto" THEN "ReadConsecutiveWhitespace"
    ELSE "ReadConsecutiveWordCharacters"

Min(a, b) == IF a < b THEN a ELSE b

\* C15: a fill-a-receiver operation that meets a character that does not
\* qualify, or as many qualifying characters as the receiver holds, returns
\* with no error the number of qualifying characters it took, which it has
\* written in order into the first slots of the receiver, the others left
\* as they were; the position is behind the characters taken, so that after
\* a run longer than the receiver the next Read returns the next character
\* of the run.
C15_IntoStopsWhenFullOrAtOtherCharacter ==
    family = "utf8" /\ last.op \in IntoOps =>
        \A k \in Kinds :
            LET units == UnitsFrom(last.pre[k])
                n == MaximalRunLength(last.pre[k], ReadOfInto(last.op), last.arg, units)
                cap == Len(last.receiver)
                m == Min(n, cap)
                got == last[k].val
                next == ReadCharacter(Current(k))
            IN  (m = cap \/ n < Len(units)) =>
                    /\ last[k].err = NoError
                    /\ got.count = m
                    /\ Len(got.receiver) = cap
                    /\ \A i \in 1..cap :
                          got.receiver[i] = IF i <= m THEN units[i] ELSE last.receiver[i]
                    /\ Position(Current(k))
                           = Position(last.pre[k]) + Width(k, SubSeq(units, 1, m))
                    /\ m < Len(units) => /\ next.err = NoError
                                         /\ next.val = units[m + 1]

\* A receiver of one character filled from a run of two word characters:
\* the second, which qualifies too, is what the next Read returns.
C15_Witness ==
    /\ family = "utf8"
    /\ last.op = "ReadConsecutiveWordCharactersInto"
    /\ Len(last.receiver) = 1
    /\ \A k \in Kinds : /\ last[k].val.count = 1
                        /\ last[k].val.receiver = <<169>>
                        /\ last[k].err = NoError
    /\ ReadCharacter(utf8StringNibbler).val = 97

\* C16, as claimed: for every capacity of the receiver, a fill-a-receiver
\* operation started at the end of the stream returns 0 and EOF, and one
\* that meets qualifying characters only, at least one, up to the end of
\* the stream returns their number, or the capacity if that is less, with
\* no error.
C16_IntoAtEndOfStream ==
    family = "utf8" /\ last.op \in IntoOps =>
        \A k \in Kinds :
            /\ AtEnd(last.pre[k]) =>
                  /\ last[k].val.count = 0
                  /\ last[k].err = EOF
            /\ RunEndsWithTheStream(last.pre[k], ReadOfInto(last.op), last.arg) =>
                  /\ last[k].val.count
                         = Min(Len(UnitsFrom(last.pre[k])), Len(last.receiver))
                  /\ last[k].err = NoError

\* C16, amended: a fill-a-receiver operation started at the end of the
\* stream returns 0 and EOF when the receiver holds at least one character,
\* and 0 and no error when the receiver holds none; one that meets
\* qualifying characters only, at least one, up to the end of the stream
\* returns their number, or the capacity if that is less, with no error.
C16_IntoAtEndOfStreamWithRoom ==
    family = "utf8" /\ last.op \in IntoOps =>
        \A k \in Kinds :
            /\ AtEnd(last.pre[k]) =>
                  /\ last[k].val.count = 0
                  /\ last[k].err = IF Len(last.receiver) > 0 THEN EOF ELSE NoError
                  /\ Position(Current(k)) = Position(last.pre[k])
            /\ RunEndsWithTheStream(last.pre[k], ReadOfInto(last.op), last.arg) =>
                  /\ last[k].val.count
                         = Min(Len(UnitsFrom(last.pre[k])), Len(last.receiver))
                  /\ last[k].err = NoError

\* A word fill started behind a space with room for two characters: the
\* stream ends after one, which is returned with no error.
C16_Witness ==
    /\ family = "utf8"
    /\ last.op = "ReadConsecutiveWordCharactersInto"
    /\ Len(last.receiver) = 2
    /\ last.pre.string.indexInStringOfNextReadByte = 1
    /\ \A k \in Kinds : /\ last[k].val.count = 1
                        /\ last[k].val.receiver = <<169, 0>>
                        /\ last[k].err = NoError
    /\ AtEnd(utf8StringNibbler)

\* The read whose scan a discard is said to make.
ReadOfDiscard(nib, op, matchFunction) ==
    IF op = "DiscardConsecutiveCharactersMatching"
    THEN ReadConsecutiveCharactersMatching(nib, matchFunction)
    ELSE ReadConsecutiveCharactersNotMatching(nib, matchFunction)

\* C17: from every state, DiscardConsecutiveCharactersMatching(f) and
\* DiscardConsecutiveCharactersNotMatching(f) return the length of the run
\* that ReadConsecutiveCharactersMatching(f), respectively
\* ReadConsecutiveCharactersNotMatching(f), returns from that state, the
\* same error, and leave the same position, also where ReadCharacter fails
\* with an error that is not EOF.
C17_DiscardScansAsReadDoes ==
    /\ family = "utf8"
    /\ last.op \in {"DiscardConsecutiveCharactersMatching",
                    "DiscardConsecutiveCharactersNotMatching"}
    => \A k \in Kinds :
           LET read == ReadOfDiscard(last.pre[k], last.op, last.arg)
           IN  /\ last[k].val = Len(read.val)
               /\ last[k].err = read.err
               /\ Position(Current(k)) = Position(read.nib)

\* C18: ReadFixedNumberOfBytes(n) called with at least n bytes to come
\* returns the next n bytes with no error and advances the position by n;
\* called with k < n bytes to come before the end of the stream, k = 0
\* included, it returns those k bytes with EOF and leaves the position at
\* the end; on the slice-backed and on the reader-backed nibbler.
C18_FixedCountIsPartialAtTheEnd ==
    family = "byte" /\ last.op = "ReadFixedNumberOfBytes" =>
        \A k \in Kinds :
            LET units == UnitsFrom(last.pre[k])
                n == last.arg
            IN  /\ Len(units) >= n =>
                      /\ last[k].val = SubSeq(units, 1, n)
                      /\ last[k].err = NoError
                      /\ Position(Current(k)) = Position(last.pre[k]) + n
                /\ Len(units) < n /\ NothingButUnitsAhead(last.pre[k]) =>
                      /\ last[k].val = units
                      /\ last[k].err = EOF
                      /\ Position(Current(k)) = Position(last.pre[k]) + Len(units)
                      /\ AtEnd(Current(k))

\* Three bytes asked for with two to come, which the reader delivers in two
\* reads: both nibblers return the two bytes with EOF.
C18_Witness ==
    /\ family = "byte"
    /\ last.op = "ReadFixedNumberOfBytes"
    /\ last.arg = 3
    /\ Len(byteReaderNibbler.backingReader.script) = 2
    /\ \A k \in Kinds : /\ last[k].val = <<1, 2>>
                        /\ last[k].err = EOF
                        /\ AtStart(last.pre[k])

\* C19: ReadFixedNumberOfBytes(0) returns no bytes and no error in every
\* state, at the end of the stream and on an empty source too, leaves the
\* nibbler as it was and makes no call of the reader's source.
C19_FixedCountOfZeroReadsNothing ==
    family = "byte" /\ last.op = "ReadFixedNumberOfBytes" /\ last.arg = 0 =>
        \A k \in Kinds :
            /\ last[k].val = <<>>
            /\ last[k].err = NoError
            /\ last[k].calls = 0
            /\ Current(k) = last.pre[k]

\* No bytes asked for after a ReadByte has met the end of the stream.
C19_Witness ==
    /\ family = "byte"
    /\ last.op = "ReadFixedNumberOfBytes"
    /\ last.arg = 0
    /\ \A k \in Kinds : /\ AtEnd(last.pre[k])
                        /\ last[k].err = NoError
                        /\ actualNibbler_ReadByte(Current(k)).err = EOF

\* The bytes at the position are not the encoding of a character.
InvalidEncodingAhead(nib) == ~AtEnd(nib) /\ UnitsFrom(nib) = <<>>

\* C20: on the nibblers over a fixed UTF-8 text, string or byte slice, a
\* ReadCharacter or a PeekAtNextCharacter at a position whose bytes are not
\* the encoding of a character fails with the invalid-encoding error, which
\* is not EOF, and leaves the nibbler where it was; from every such
\* position ReadCharacter and PeekAtNextCharacter fail in this way, and so
\* does the ReadCharacter after a failed one.
C20_InvalidEncodingFailsInPlace ==
    family = "utf8" =>
        \A k \in {"string", "bytes"} :
            LET read == ReadCharacter(Current(k))
                peek == PeekAtNextCharacter(Current(k))
                again == ReadCharacter(read.nib)
            IN  /\ /\ last.op \in {"ReadCharacter", "PeekAtNextCharacter"}
                   /\ InvalidEncodingAhead(last.pre[k])
                   => /\ last[k].err = InvalidEncoding
                      /\ last[k].err # EOF
                      /\ Current(k) = last.pre[k]
                /\ InvalidEncodingAhead(Current(k)) =>
                      /\ read.err = InvalidEncoding
                      /\ Position(read.nib) = Position(Current(k))
                      /\ peek.err = InvalidEncoding
                      /\ Position(peek.nib) = Position(Current(k))
                      /\ again.err = InvalidEncoding
                      /\ Position(again.nib) = Position(Current(k))

\* A ReadCharacter that has failed behind one character of two bytes, at a
\* byte that can only continue an encoding.
C20_Witness ==
    /\ family = "utf8"
    /\ last.op = "ReadCharacter"
    /\ utf8StringNibbler.backingString = <<194, 169, 169>>
    /\ \A k \in {"string", "bytes"} :
           /\ Position(last.pre[k]) = 2
           /\ last[k].err = InvalidEncoding
           /\ Position(Current(k)) = 2

\* What the n-th of n ReadCharacter calls in a row on a UTF8ReaderNibbler
\* returns.
RECURSIVE NthReadOfReader(_, _)
NthReadOfReader(nib, n) ==
    LET r == UTF8ReaderNibbler_ReadCharacter(nib)
    IN  IF n <= 1 THEN r ELSE NthReadOfReader(r.nib, n - 1)

\* C21: over a reader that delivers a valid UTF-8 text, however the bytes
\* of the text are divided into reads, the ReadCharacter calls made on a new
\* UTF8ReaderNibbler return the characters of the text, one a call, in
\* order and with no error, and the call after the last of them returns
\* EOF.
C21_ReaderDecodesAcrossRefills ==
    family = "utf8reader" /\ last = NoOperation =>
        LET text == ScriptBytes(utf8ReaderNibbler.reader.script)
            characters == CharactersBeforeInvalid(text)
        IN  Width("string", characters) = Len(text) =>
                /\ \A i \in 1..Len(characters) :
                      /\ NthReadOfReader(utf8ReaderNibbler, i).err = NoError
                      /\ NthReadOfReader(utf8ReaderNibbler, i).val = characters[i]
                /\ NthReadOfReader(utf8ReaderNibbler, Len(characters) + 1).err = EOF

\* The tracker has a mark.
BookendIsActive(tracker) == tracker.mark # NoMark

\* The tracker's position, and whether it is at the end of the text.
BookendPosition(tracker) == tracker.nibbler.indexInStringOfNextReadByte
BookendAtEnd(tracker) == BookendPosition(tracker) >= Len(tracker.nibbler.backingString)

\* C22: StopBookending called with a mark returns, with no error, exactly
\* the characters that the ReadCharacter calls since the StartBookending
\* that set the mark have returned, in order: none when none was read, and
\* the same whether the mark was set at the start or in the middle of the
\* text and whether or not a ReadCharacter since has met the end of the
\* stream.
C22_BookendRoundTrip ==
    /\ family = "bookend"
    /\ last.op = "StopBookending"
    /\ BookendIsActive(last.pre.bookend)
    => /\ last.bookend.err = NoError
       /\ last.bookend.val = last.reads

\* A bookend started behind the first character, stopped after the second,
\* of two bytes, was read and a further ReadCharacter met the end.
C22_Witness ==
    /\ family = "bookend"
    /\ last.op = "StopBookending"
    /\ last.pre.bookend.mark = 1
    /\ last.ended
    /\ last.reads = <<169>>
    /\ last.bookend.val = <<169>>
    /\ last.bookend.err = NoError

\* C23: StartBookending called while there is a mark fails with the
\* already-active error and leaves the mark and the position as they were:
\* the StopBookending after it returns the characters read since the mark
\* was set.
C23_OneMarkAtATime ==
    /\ family = "bookend"
    /\ last.op = "StartBookending"
    /\ BookendIsActive(last.pre.bookend)
    => /\ last.bookend.err = AlreadyActive
       /\ bookendTracker = last.pre.bookend
       /\ StopBookending(bookendTracker).err = NoError
       /\ StopBookending(bookendTracker).val = last.reads

\* A second start after one character was read since the first.
C23_Witness ==
    /\ family = "bookend"
    /\ last.op = "StartBookending"
    /\ last.pre.bookend.mark = 0
    /\ BookendPosition(last.pre.bookend) = 2
    /\ ~BookendAtEnd(last.pre.bookend)
    /\ last.reads = <<169>>
    /\ last.bookend.err = AlreadyActive

\* The tracker after up to n ReadCharacter calls in a row, the first failing
\* one being the last, and the characters they returned.
RECURSIVE BookendAfterReads(_, _, _)
BookendAfterReads(tracker, n, characters) ==
    IF n = 0 THEN [nib |-> tracker, characters |-> characters]
    ELSE LET r == Bookend_ReadCharacter(tracker)
         IN  IF r.err # NoError THEN [nib |-> r.nib, characters |-> characters]
             ELSE BookendAfterReads(r.nib, n - 1, Append(characters, r.val))

\* C24: CharactersSinceStartOfBookend leaves the mark and the position as
\* they were.  With a mark it returns the characters read since the mark
\* was set, a second call returns the same, and a call after further
\* ReadCharacter calls returns them followed by exactly the characters
\* those calls returned; with no mark it fails with the no-active-mark
\* error.
C24_CharactersSinceStartKeepsTheMark ==
    family = "bookend" /\ last.op = "CharactersSinceStartOfBookend" =>
        /\ bookendTracker = last.pre.bookend
        /\ ~BookendIsActive(last.pre.bookend) => last.bookend.err = NoActiveMark
        /\ BookendIsActive(last.pre.bookend) =>
              /\ last.bookend.err = NoError
              /\ last.bookend.val = last.reads
              /\ CharactersSinceStartOfBookend(bookendTracker).err = NoError
              /\ CharactersSinceStartOfBookend(bookendTracker).val = last.bookend.val
              /\ \A n \in 1..MaxText :
                    LET later == BookendAfterReads(bookendTracker, n, <<>>)
                    IN  /\ CharactersSinceStartOfBookend(later.nib).err = NoError
                        /\ CharactersSinceStartOfBookend(later.nib).val
                               = last.bookend.val \o later.characters

\* A call after one character was read since the mark, with another still
\* to be read.
C24_Witness ==
    /\ family = "bookend"
    /\ last.op = "CharactersSinceStartOfBookend"
    /\ last.pre.bookend.mark = 0
    /\ last.bookend.val = <<169>>
    /\ BookendAfterReads(bookendTracker, 1, <<>>).characters = <<97>>

\* C25, as claimed: a StopBookending that succeeds returns what
\* CharactersSinceStartOfBookend returns in its place and clears the mark:
\* right after it CharactersSinceStartOfBookend and StopBookending fail with
\* the no-active-mark error, and StartBookending succeeds and marks the
\* position the tracker is at.
C25_StopClearsTheMark ==
    /\ family = "bookend"
    /\ last.op = "StopBookending"
    /\ last.bookend.err = NoError
    => /\ last.bookend.val = CharactersSinceStartOfBookend(last.pre.bookend).val
       /\ ~BookendIsActive(bookendTracker)
       /\ BookendPosition(bookendTracker) = BookendPosition(last.pre.bookend)
       /\ CharactersSinceStartOfBookend(bookendTracker).err = NoActiveMark
       /\ StopBookending(bookendTracker).err = NoActiveMark
       /\ StartBookending(bookendTracker).err = NoError
       /\ StartBookending(bookendTracker).nib.mark = BookendPosition(bookendTracker)

\* C25, amended: as claimed, but the StartBookending after the stop
\* succeeds, marking the position the tracker is at, only where a character
\* or an invalid encoding is still ahead; at the end of the text it fails
\* with EOF and sets no mark.
C25_StopClearsTheMarkAndStartNeedsData ==
    /\ family = "bookend"
    /\ last.op = "StopBookending"
    /\ last.bookend.err = NoError
    => /\ last.bookend.val = CharactersSinceStartOfBookend(last.pre.bookend).val
       /\ ~BookendIsActive(bookendTracker)
       /\ BookendPosition(bookendTracker) = BookendPosition(last.pre.bookend)
       /\ CharactersSinceStartOfBookend(bookendTracker).err = NoActiveMark
       /\ StopBookending(bookendTracker).err = NoActiveMark
       /\ IF BookendAtEnd(bookendTracker)
          THEN /\ StartBookending(bookendTracker).err = EOF
               /\ StartBookending(bookendTracker).nib = bookendTracker
          ELSE /\ StartBookending(bookendTracker).err = NoError
               /\ StartBookending(bookendTracker).nib.mark
                      = BookendPosition(bookendTracker)

\* A stop behind one character read since a mark at the start, with another
\* character ahead: the next start marks position 2, not 0.
C25_Witness ==
    /\ family = "bookend"
    /\ last.op = "StopBookending"
    /\ last.pre.bookend.mark = 0
    /\ last.bookend.val = <<169>>
    /\ ~BookendAtEnd(bookendTracker)
    /\ StartBookending(bookendTracker).nib.mark = 2

\* C26: a PeekAtNextCharacter leaves the characters since the mark as they
\* were, and a StopBookending called while the character at the position
\* has been peeked at and not read returns exactly the characters read
\* since the mark, without it.
C26_PeekedCharacterIsNotInTheSpan ==
    family = "bookend" =>
        /\ /\ last.op = "PeekAtNextCharacter"
           /\ BookendIsActive(last.pre.bookend)
           => /\ CharactersSinceStartOfBookend(bookendTracker).val = last.reads
              /\ StopBookending(bookendTracker).val = last.reads
        /\ /\ last.op = "StopBookending"
           /\ BookendIsActive(last.pre.bookend)
           /\ last.peeked
           => /\ last.bookend.val = last.reads
              /\ Len(last.bookend.val) = Len(last.reads)

\* One character read since the mark, the next one peeked at, then the stop.
C26_Witness ==
    /\ family = "bookend"
    /\ last.op = "StopBookending"
    /\ last.peeked
    /\ last.reads = <<169>>
    /\ last.bookend.val = <<169>>
    /\ Bookend_PeekAtNextCharacter(bookendTracker).val = 97

\* C27: after AddNamedCharacterSetFromString the set under the name is
\* exactly the characters of the string with a code point from 1 to 255,
\* both included; the sets under the other names are as they were.
C27_SetFromStringHoldsCodePointsUpTo255 ==
    family = "setsMap" /\ last.op = "AddNamedCharacterSetFromString" =>
        LET now == namedCharacterSetsMap.mapOfSetsByName
            before == last.pre.setsMap.mapOfSetsByName
        IN  /\ DOMAIN now = DOMAIN before \cup {last.arg}
            /\ now[last.arg] = { c \in Elements(stringToRuneSlice(last.from)) :
                                   c >= 1 /\ c <= 255 }
            /\ \A other \in DOMAIN before \ {last.arg} : now[other] = before[other]

\* C28: in every reachable state the position of a nibbler over a slice or
\* a string lies between 0 and the length of what it reads, both included,
\* whatever calls succeeded or failed before; the rune-slice nibbler's index
\* of the last read rune lies between -1 and the length less one, also over
\* the empty slice.
C28_PositionStaysInsideTheBacking ==
    /\ family = "byte" =>
          /\ 0 <= byteSliceNibbler.indexInBufferOfNextReadByte
          /\ byteSliceNibbler.indexInBufferOfNextReadByte
                 <= Len(byteSliceNibbler.backingBuffer)
    /\ family = "utf8" =>
          /\ 0 <= utf8StringNibbler.indexInStringOfNextReadByte
          /\ utf8StringNibbler.indexInStringOfNextReadByte
                 <= Len(utf8StringNibbler.backingString)
          /\ -1 <= utf8RuneSliceNibbler.indexOfLastReadRune
          /\ utf8RuneSliceNibbler.indexOfLastReadRune
                 <= Len(utf8RuneSliceNibbler.backingSlice) - 1
          /\ 0 <= utf8ByteSliceNibbler.underlyingStringNibbler.indexInStringOfNextReadByte
          /\ utf8ByteSliceNibbler.underlyingStringNibbler.indexInStringOfNextReadByte
                 <= Len(utf8ByteSliceNibbler.underlyingStringNibbler.backingString)
    /\ family = "named" =>
          /\ 0 <= utf8NamedSetNibbler.indexInStringOfNextReadByte
          /\ utf8NamedSetNibbler.indexInStringOfNextReadByte
                 <= Len(utf8NamedSetNibbler.backingString)

\* A ReadCharacter that failed at the end of the text behind an
\* UnreadCharacter that failed at its start: the empty rune slice, with the
\* index still at -1.
C28_Witness ==
    /\ family = "utf8"
    /\ last.op = "ReadCharacter"
    /\ last.runes.err = EOF
    /\ last.string.err = EOF
    /\ Len(utf8RuneSliceNibbler.backingSlice) = 0
    /\ utf8RuneSliceNibbler.indexOfLastReadRune = -1
    /\ utf8StringNibbler.indexInStringOfNextReadByte = 0
    /\ UTF8RuneSliceNibbler_UnreadCharacter(utf8RuneSliceNibbler).err = AtStreamStart

\* The bytes the external source has delivered so far.
DeliveredSoFar(r) == ScriptBytes(SubSeq(r.script, 1, r.used))

\* C29: in every reachable state of the reader-backed byte nibbler the
\* position lies between 0 and the number of buffered bytes, the byte that
\* ReadByte and PeekAtNextByte take after their refill lies inside the
\* buffer, the buffer before the last call is a prefix of the buffer after
\* it, and the buffer is the concatenation of the bytes the source has
\* delivered so far.
C29_ReaderBufferOnlyGrows ==
    family = "byte" =>
        /\ 0 <= byteReaderNibbler.indexOfNextReadByteInBuffer
        /\ byteReaderNibbler.indexOfNextReadByteInBuffer
               <= Len(byteReaderNibbler.internalBuffer)
        /\ LET f == RefillIfExhausted(byteReaderNibbler)
           IN  f.err = NoError =>
                   f.nib.indexOfNextReadByteInBuffer < Len(f.nib.internalBuffer)
        /\ last.op # "none" =>
               IsPrefix(last.pre.reader.internalBuffer, byteReaderNibbler.internalBuffer)
        /\ byteReaderNibbler.internalBuffer = DeliveredSoFar(byteReaderNibbler.backingReader)

\* A ReadByte that made the source's second delivery: the buffer held one
\* byte before it and holds two after it.
C29_Witness ==
    /\ family = "byte"
    /\ last.op = "ReadByte"
    /\ last.reader.calls = 1
    /\ last.reader.err = NoError
    /\ Len(last.pre.reader.internalBuffer) = 1
    /\ Len(byteReaderNibbler.internalBuffer) = 2
    /\ byteReaderNibbler.backingReader.used = 2
    /\ byteReaderNibbler.indexOfNextReadByteInBuffer = 2

\* The units a run read has taken since it began, by the positions.
TakenByScan(sc) == Position(sc.nib) - Position(sc.from)

\* Where a run read stands: the run is no longer than the source, the
\* position has moved by exactly the units of the run, every pass that
\* left the read SCANNING took one unit of the run, and the pass that ended
\* it took none.
ScanHasTakenItsRun ==
    family = "scan" /\ scan.state \in {SCANNING, DONE} /\ scan.op # "none" =>
        /\ Len(scan.run) <= Len(AllUnits(scan.from))
        /\ TakenByScan(scan) = Width(scan.nib.kind, scan.run)
        /\ scan.state = SCANNING => scan.iterations = Len(scan.run)
        /\ scan.state = DONE => scan.iterations \in {0, Len(scan.run) + 1}

\* The run read as one call, made where the scan began.
WholeScan(sc) ==
    IF sc.nib.kind \in {"slice", "reader"}
    THEN readNextBytesLoop(sc.from, sc.members, sc.wanted, <<>>, 0)
    ELSE IF sc.wanted THEN ReadConsecutiveCharactersMatching(sc.from, sc.matchFunction)
    ELSE ReadConsecutiveCharactersNotMatching(sc.from, sc.matchFunction)

\* The run read is DONE, with the run, the error and the position of the
\* call as a whole.
ScanIsOver ==
    /\ family = "scan"
    /\ scan.state = DONE
    /\ ScanHasTakenItsRun
    /\ scan.iterations > 0 =>
           /\ WholeScan(scan).nib = scan.nib
           /\ WholeScan(scan).val = scan.run
           /\ WholeScan(scan).err = scan.err

\* C30: a run read that is SCANNING is DONE after finitely many passes of
\* its loop, on every source: a pass that leaves it SCANNING has taken one
\* qualifying unit, so the passes made are as many as the units of the run,
\* which the units of the source bound, and the pass that ends it takes
\* nothing more than the run.
C30_EveryScanEnds ==
    (family = "scan" /\ scan.state = SCANNING) ~> ScanIsOver

\* A run read of the reader-backed nibbler that is DONE after two passes
\* took a byte each and the third met an empty read of the source.
C30_Witness ==
    /\ family = "scan"
    /\ scan.state = DONE
    /\ scan.nib.kind = "reader"
    /\ scan.iterations = 3
    /\ Len(scan.run) = 2
    /\ scan.err = ProtocolViolation

\* The loop of ReadConsecutiveCharactersMatching run with the negation of
\* the predicate.
RECURSIVE MatchingLoopWithNegatedPredicate(_, _, _)
MatchingLoopWithNegatedPredicate(nib, matchFunction, matchingRunes) ==
    LET r == ReadCharacter(nib)
    IN  IF r.err # NoError
        THEN IF r.err = EOF
             THEN IF Len(matchingRunes) = 0
                  THEN Result(r.nib, <<>>, EOF, 0)
                  ELSE Result(r.nib, matchingRunes, NoError, 0)
             ELSE Result(r.nib, matchingRunes, r.err, 0)
        ELSE IF ~CharacterMatchingFunction(matchFunction, r.val)
             THEN MatchingLoopWithNegatedPredicate(r.nib, matchFunction,
                                                   Append(matchingRunes, r.val))
             ELSE Result(UnreadCharacter(r.nib).nib, matchingRunes, NoError, 0)

\* C31: ReadConsecutiveCharactersNotMatching(f) returns the run, the error
\* and the position that ReadConsecutiveCharactersMatching returns for the
\* negation of f, also where ReadCharacter fails with an error that is not
\* EOF: that error comes back with the run read before it.
C31_NotMatchingReturnsTheErrorOfTheRead ==
    family = "utf8" /\ last.op = "ReadConsecutiveCharactersNotMatching" =>
        \A k \in Kinds :
            LET negated == MatchingLoopWithNegatedPredicate(last.pre[k], last.arg, <<>>)
            IN  /\ last[k].val = negated.val
                /\ last[k].err = negated.err
                /\ Position(Current(k)) = Position(negated.nib)

\* The number of UnreadCharacter calls that succeed in a row on the string
\* nibbler with the stack of widths.
RECURSIVE CharacterUnreadsThatSucceed(_)
CharacterUnreadsThatSucceed(nib) ==
    LET u == UTF8StringNibbler2_UnreadCharacter(nib)
    IN  IF u.err = NoError THEN 1 + CharacterUnreadsThatSucceed(u.nib) ELSE 0

\* The nibbler after n UnreadCharacter calls.
RECURSIVE AfterCharacterUnreads(_, _)
AfterCharacterUnreads(nib, n) ==
    IF n = 0 THEN nib
    ELSE AfterCharacterUnreads(UTF8StringNibbler2_UnreadCharacter(nib).nib, n - 1)

\* C32: on the string nibbler with the stack of the last ten widths, an
\* UnreadCharacter that succeeds moves the position back by the width of the
\* character that ends at the position; with an empty stack it fails and
\* leaves the nibbler as it was.  From any state at most StackCapacity
\* UnreadCharacter calls in a row succeed, as many as the stack holds, and
\* the one after them fails without moving the position.
C32_UnreadGoesBackThroughTheLastTenWidths ==
    family = "named" =>
        /\ last.op = "UnreadCharacter" =>
              LET pre == last.pre.named
                  before == UpTo(pre.backingString, pre.indexInStringOfNextReadByte)
              IN  IF pre.stackOfLastTenCharacterByteLengths = <<>>
                  THEN /\ last.named.err \notin {NoError, EOF}
                       /\ utf8NamedSetNibbler = pre
                  ELSE /\ last.named.err = NoError
                       /\ pre.indexInStringOfNextReadByte
                              - utf8NamedSetNibbler.indexInStringOfNextReadByte
                          = DecodeLastRuneInString(before).size
                       /\ DecodeLastRuneInString(before).r # RuneError
        /\ LET n == CharacterUnreadsThatSucceed(utf8NamedSetNibbler)
               start == AfterCharacterUnreads(utf8NamedSetNibbler, n)
               next == UTF8StringNibbler2_UnreadCharacter(start)
           IN  /\ n <= StackCapacity
               /\ n = Len(utf8NamedSetNibbler.stackOfLastTenCharacterByteLengths)
               /\ next.err \notin {NoError, EOF}
               /\ next.nib = start

\* An UnreadCharacter that failed away from the start of the text: more than
\* ten characters had been read and ten of them unread.
C32_Witness ==
    /\ family = "named"
    /\ last.op = "UnreadCharacter"
    /\ last.named.err = AtStreamStart
    /\ utf8NamedSetNibbler.indexInStringOfNextReadByte > 0

\* The string a string nibbler or a byte-slice nibbler reads.
BackingString(nib) ==
    IF nib.kind = "bytes" THEN nib.underlyingStringNibbler.backingString
    ELSE nib.backingString

\* The widths w for which the w bytes that end at index i of a string are the
\* whole encoding of one code point, decoded forward: none or one.
WidthsOfCodePointEndingAt(text, i) ==
    { w \in 1..Min(4, i) :
        LET d == DecodeRuneInString(SubSeq(text, i - w + 1, i))
        IN  d.r # RuneError /\ d.size = w }

\* What an UnreadCharacter made at position p of a string is to do: u is
\* what it returned, pre and post the nibbler before and after it.
UnreadDecodedBackward(pre, post, err) ==
    LET p == Position(pre)
        widths == WidthsOfCodePointEndingAt(BackingString(pre), p)
    IN  IF p = 0 THEN err = AtStreamStart /\ post = pre
        ELSE IF widths = {} THEN err = InvalidEncoding /\ post = pre
        ELSE /\ err = NoError
             /\ BackingString(post) = BackingString(pre)
             /\ \E w \in widths : Position(post) = p - w

\* C33: UnreadCharacter of the string nibbler and of the byte-slice nibbler
\* decodes backward.  At position 0 it fails with the start-of-stream error;
\* where the bytes before the position do not end in the encoding of a code
\* point it fails with the invalid-encoding error; both leave the nibbler as
\* it was; otherwise it succeeds and moves the position back by the width of
\* the code point that ends at the position.  This holds of the calls made
\* and of the method at every index of the string; a position the reads
\* reach never has an invalid encoding before it.
C33_UnreadDecodesBackward ==
    family = "utf8" =>
        /\ last.op = "UnreadCharacter" =>
              \A k \in {"string", "bytes"} :
                  UnreadDecodedBackward(last.pre[k], Current(k), last[k].err)
        /\ \A i \in 0..Len(utf8StringNibbler.backingString) :
              LET at == [utf8StringNibbler EXCEPT !.indexInStringOfNextReadByte = i]
                  u == UTF8StringNibbler_UnreadCharacter(at)
              IN  UnreadDecodedBackward(at, u.nib, u.err)
        /\ \A k \in {"string", "bytes"} :
              UnreadCharacter(Current(k)).err # InvalidEncoding

\* An UnreadCharacter that went back over a character of two bytes, in a
\* string that holds an invalid encoding further on.
C33_Witness ==
    /\ family = "utf8"
    /\ last.op = "UnreadCharacter"
    /\ last.string.err = NoError
    /\ last.bytes.err = NoError
    /\ last.pre.string.indexInStringOfNextReadByte = 2
    /\ utf8StringNibbler.indexInStringOfNextReadByte = 0
    /\ utf8StringNibbler.backingString = <<194, 169, 169>>

\* The number of ReadCharacter calls that take a nibbler to the position pos,
\* and -1 where no number of them does.
RECURSIVE CharactersUpTo(_, _)
CharactersUpTo(nib, pos) ==
    IF Position(nib) = pos THEN 0
    ELSE LET r == ReadCharacter(nib)
         IN  IF r.err # NoError THEN -1
             ELSE LET n == CharactersUpTo(r.nib, pos)
                  IN  IF n < 0 THEN -1 ELSE n + 1

\* The slots of a receiver a call has written a character to: a receiver is
\* handed over holding zeros, and no character read is zero.
SlotsWritten(receiver) == Cardinality({ i \in 1..Len(receiver) : receiver[i] # 0 })

\* C34 as stated: the count a fill-a-receiver call returns is the number of
\* characters the position advanced by and the number of slots written, and
\* lies in 0..len(receiver), whatever error the call ends with.
C34_CountIsWhatWasTaken ==
    family = "utf8" /\ last.op \in IntoOps =>
        \A k \in Kinds :
            /\ last[k].val.count = CharactersUpTo(last.pre[k], Position(Current(k)))
            /\ last[k].val.count = SlotsWritten(last[k].val.receiver)
            /\ last[k].val.count >= 0
            /\ last[k].val.count <= Len(last.receiver)

\* C34: the count a fill-a-receiver call returns with no error or with EOF is
\* the number of characters the position advanced by and the number of slots
\* written, and lies in 0..len(receiver).  A call that ends with any other
\* error returns -1; the characters it took before the error stay consumed
\* and written, as many of the one as of the other and fewer than
\* len(receiver).
C34_CountIsWhatWasTakenUnlessTheReadFails ==
    family = "utf8" /\ last.op \in IntoOps =>
        \A k \in Kinds :
            LET count == last[k].val.count
                advanced == CharactersUpTo(last.pre[k], Position(Current(k)))
                written == SlotsWritten(last[k].val.receiver)
            IN  /\ advanced = written
                /\ written \in 0..Len(last.receiver)
                /\ \A i \in 1..Len(last.receiver) :
                       last[k].val.receiver[i] # 0 <=> i <= written
                /\ IF last[k].err \in {NoError, EOF}
                   THEN count = written
                   ELSE count = -1 /\ written < Len(last.receiver)

\* A fill that took one character and then met an invalid encoding: the
\* string nibbler returns -1 with one slot written and one character
\* consumed.
C34_Witness ==
    /\ family = "utf8"
    /\ last.op \in IntoOps
    /\ last.string.err = InvalidEncoding
    /\ last.string.val.count = -1
    /\ SlotsWritten(last.string.val.receiver) = 1
    /\ utf8StringNibbler.indexInStringOfNextReadByte
           > last.pre.string.indexInStringOfNextReadByte

\* C35: over a valid UTF-8 text, every call made on the string nibbler, on
\* the byte-slice nibbler over the bytes of the text and on the rune-slice
\* nibbler over its code points returns the same characters (or count and
\* receiver) and an error of the same kind on all three, after any calls.
C35_BackingsAreInterchangeable ==
    family = "utf8" /\ last.op # "none" =>
        /\ last.bytes.val = last.string.val
        /\ last.bytes.err = last.string.err
        /\ last.runes.val = last.string.val
        /\ last.runes.err = last.string.err

\* C36: a set-based read of the reader-backed nibbler that ends with a
\* ProtocolViolation returns, with the error, the bytes it read before the
\* empty read, every byte from the old position to the end of the buffer;
\* they stay consumed, the position being the length of the buffer, which
\* holds the bytes the source has delivered.  The ReadByte after it calls the
\* source once more and returns what the source then gives: the next byte of
\* the stream (the one that follows the bytes returned), EOF when the source
\* has ended, a ProtocolViolation when the source gives nothing again.
C36_ReadsGoOnAfterAProtocolViolation ==
    family = "byte" /\ last.op \in SetOps /\ last.reader.err = ProtocolViolation =>
        LET pre == last.pre.reader
            cur == byteReaderNibbler
            stream == ScriptBytes(cur.backingReader.script)
            rest == From(cur.backingReader.script, cur.backingReader.used)
            next == ByteReaderNibbler_ReadByte(cur)
        IN  /\ last.reader.val = From(cur.internalBuffer, pre.indexOfNextReadByteInBuffer)
            /\ cur.indexOfNextReadByteInBuffer
                   = pre.indexOfNextReadByteInBuffer + Len(last.reader.val)
            /\ cur.indexOfNextReadByteInBuffer = Len(cur.internalBuffer)
            /\ IsPrefix(pre.internalBuffer, cur.internalBuffer)
            /\ cur.internalBuffer = ScriptBytes(UpTo(cur.backingReader.script,
                                                     cur.backingReader.used))
            /\ next.calls = 1
            /\ IF rest = <<>> THEN next.err = EOF /\ next.nib = cur
               ELSE IF Head(rest).kind = "empty"
               THEN /\ next.err = ProtocolViolation
                    /\ next.nib.indexOfNextReadByteInBuffer = cur.indexOfNextReadByteInBuffer
                    /\ next.nib.internalBuffer = cur.internalBuffer
               ELSE /\ next.err = NoError
                    /\ next.val = stream[cur.indexOfNextReadByteInBuffer + 1]
                    /\ next.nib.indexOfNextReadByteInBuffer
                           = cur.indexOfNextReadByteInBuffer + 1
                    /\ next.nib.internalBuffer = cur.internalBuffer \o Head(rest).bytes

\* A set-based read that returned a byte with a ProtocolViolation, where the
\* source has a byte to give to the ReadByte after it.
C36_Witness ==
    /\ family = "byte"
    /\ last.op \in SetOps
    /\ last.reader.err = ProtocolViolation
    /\ Len(last.reader.val) > 0
    /\ ByteReaderNibbler_ReadByte(byteReaderNibbler).err = NoError

\* ReadConsecutiveWhitespace and ReadConsecutiveWordCharacters called in
\* turn until one returns EOF or until calls calls have been made: the runs
\* returned, one after the other, and whether EOF was met.
RECURSIVE RunsReadInTurn(_, _, _, _)
RunsReadInTurn(nib, whitespaceIsNext, runs, calls) ==
    IF calls = 0 THEN [ended |-> FALSE, runs |-> runs]
    ELSE LET r == IF whitespaceIsNext THEN ReadConsecutiveWhitespace(nib)
                  ELSE ReadConsecutiveWordCharacters(nib)
         IN  IF r.err = EOF THEN [ended |-> TRUE, runs |-> runs \o r.val]
             ELSE RunsReadInTurn(r.nib, ~whitespaceIsNext, runs \o r.val, calls - 1)

\* C37: from position 0 of a valid UTF-8 text, ReadConsecutiveWhitespace and
\* ReadConsecutiveWordCharacters called in turn, whichever comes first, meet
\* EOF within two calls for each character and two more, and the runs
\* returned up to there are, one after the other, the characters of the
\* text.
C37_RunsReadInTurnMakeUpTheText ==
    family = "utf8" =>
        \A k \in Kinds : AtStart(Current(k)) =>
            \A whitespaceFirst \in BOOLEAN :
                LET text == AllUnits(Current(k))
                    read == RunsReadInTurn(Current(k), whitespaceFirst, <<>>,
                                           2 * Len(text) + 2)
                IN  read.ended /\ read.runs = text

\* The indexes of a valid UTF-8 string at which a code point starts or the
\* string ends, from index i on.
RECURSIVE BoundariesFrom(_, _)
BoundariesFrom(text, i) ==
    IF i >= Len(text) THEN {i}
    ELSE {i} \cup BoundariesFrom(text, i + DecodeRuneInString(From(text, i)).size)

\* C38: over valid UTF-8 text the position of the string nibbler and of the
\* byte-slice nibbler (UnreadCharacter decoding backward) and of the string
\* nibbler with the stack of widths (UnreadCharacter taking the last width)
\* is, in every state, in 0..len(text) and at the start of a code point or
\* at the end of the text.
C38_PositionIsOnACodePointBoundary ==
    family \in {"utf8", "named"} =>
        \A k \in Kinds \ {"runes"} :
            LET text == BackingString(Current(k))
                p == Position(Current(k))
            IN  /\ p \in 0..Len(text)
                /\ p \in BoundariesFrom(text, 0)
                /\ p < Len(text) => ~IsContinuationByte(text[p + 1])

\* An UnreadCharacter of the string nibbler with the stack of widths that
\* went back over a character of more than one byte to a position that is
\* not the start of the text.
C38_Witness ==
    /\ family = "named"
    /\ last.op = "UnreadCharacter"
    /\ last.named.err = NoError
    /\ utf8NamedSetNibbler.indexInStringOfNextReadByte > 0
    /\ last.pre.named.indexInStringOfNextReadByte
           > utf8NamedSetNibbler.indexInStringOfNextReadByte + 1

\* C39: ReadCharactersMatchingInto and ReadCharactersNotMatchingInto of the
\* string nibbler with the stack of widths, called with a receiver that is
\* not empty, return (nil or the error of the read) without a slice bound
\* out of range, at every position: at the end of the text, before a
\* character that does not qualify, and elsewhere.
C39_FillsReturnWithoutAPanic ==
    /\ family = "named"
    /\ last.op \in {"ReadCharactersMatchingInto", "ReadCharactersNotMatchingInto"}
    /\ Len(last.named.val) > 0
    => last.named.err # SliceBoundsOutOfRange

====
